---- MODULE Spec2Model ----
(***************************************************************************)
(* A model of the document database engine: the lock manager, the buffer   *)
(* pool over the disk manager, the write-ahead log and the recovery        *)
(* manager.  Each component has its own specification over the shared      *)
(* variables; the variables of the other components keep their initial     *)
(* values.                                                                 *)
(***************************************************************************)
EXTENDS Integers, Sequences, FiniteSets, TLC

VARIABLES
    \* ---- LockManager (concurrency/lock_manager.h:80-83) ----
    lock_table_,   \* LockKey -> queue of LockRequest (only existing keys)
    txn_locks_,    \* txn id -> set of LockKey (only existing txns)
    pc,            \* per transaction thread: where it is inside the lock manager
    wkey,          \* per transaction thread: the key of the call it is blocked in
    \* ---- BufferPoolManager over DiskManager (buffer_pool.h:109-121) ----
    bpm,           \* [pages_, page_table_, free_list_, lru_list_]
    disk,          \* [file, next_page_id_]: the database file, a sequence of pages
    handles,       \* the Page* pointers the callers hold: [frame, page_id, wrote] or NoHandle
    store,         \* page id -> the content most recently written to it by a caller
    \* ---- WAL (recovery/wal.h:76-85) ----
    wal,           \* [open, next_lsn_, txn_prev_lsn_, buffer_]: the WAL object
    log_file,      \* the bytes of the log file
    appended,      \* history: the records AppendLogRecord returned for, this instance
    open_pos,      \* history: the length of the log file when this instance opened it
    \* ---- RecoveryManager and the transactions that write the log ----
    recovery,      \* [phase, outcome, active_txns, dirty_pages] of the last Recover()
    client,        \* txn id -> "none", "active" or "done"
    \* ---- the engine: Catalog, HeapFile, BPlusTree (catalog.h:65-66) ----
    engine,        \* [running, collections_]: the catalog of the running shell
    expected,      \* history: [names, ops], per collection the document under each record id
    last,          \* history: [op, missing, failed] of the last call
    \* ---- a BPlusTree and its callers (bptree.h:88-92) ----
    tree,          \* [root_page_id_, max_keys_], or NoTree before it is created
    entries,       \* history: [pairs, deletes], the pairs inserted and the deletes called
    \* ---- a slotted page and its callers (page/slotted_page.h:60-94) ----
    slotted,       \* [data, calls, last]: the page buffer, <<>> once the process has died
    \* ---- TransactionManager (concurrency/transaction.h:50-54) ----
    txn_mgr,       \* [next_txn_id_, txn_map_]: txn_map_ maps a txn id to its state
    txn_call,      \* per txn id: where the Begin, Commit or Abort for it stands
    txn_ids,       \* the ids the Begin calls have drawn, in the order of the draws
    \* ---- a FilterExecutor over a child executor (executor/filter.h) ----
    filter,        \* [open, child_, predicates_, input, returned]
    \* ---- the callers of BsonSerializer (serializer/serializer.h) ----
    codec,         \* [doc, bytes, back]: a document, its bytes, what they decode to
    \* ---- the condition variables of the lock queues (lock_manager.h:73) ----
    cv             \* [notified, served, requests]: the threads notify_all has woken
                   \* that have not run yet, the threads a blocked call has
                   \* returned to, the number of lock calls so far

lockVars == <<lock_table_, txn_locks_, pc, wkey>>
bufVars == <<bpm, disk, handles, store>>
walVars == <<wal, log_file, appended, open_pos>>
recVars == <<recovery, client>>
engineVars == <<engine, expected, last>>
treeVars == <<tree, entries>>
pageVars == <<slotted>>
txnVars == <<txn_mgr, txn_call, txn_ids>>
execVars == <<filter, codec>>
cvVars == <<cv>>

vars == <<lockVars, bufVars, walVars, recVars, engineVars, treeVars, pageVars, txnVars, execVars, cvVars>>

notLockVars == <<bufVars, walVars, recVars, engineVars, treeVars, pageVars, txnVars, execVars, cvVars>>
notBufVars == <<lockVars, walVars, recVars, engineVars, treeVars, pageVars, txnVars, execVars, cvVars>>
notWalVars == <<lockVars, bufVars, recVars, engineVars, treeVars, pageVars, txnVars, execVars, cvVars>>
\* the recovery manager works on the pool, the disk, the WAL and the log file
notRecVars == <<lockVars, handles, store, appended, open_pos, engineVars, treeVars, pageVars, txnVars, execVars, cvVars>>
\* the engine works on the pool and the disk
notEngineVars == <<lockVars, handles, store, walVars, recVars, treeVars, pageVars, txnVars, execVars, cvVars>>
\* a B+ tree works on the pool and the disk
notTreeVars == <<lockVars, handles, store, walVars, recVars, engineVars, pageVars, txnVars, execVars, cvVars>>
\* the calls on a slotted page work on the page buffer alone
notPageVars == <<lockVars, bufVars, walVars, recVars, engineVars, treeVars, txnVars, execVars, cvVars>>
\* the transaction manager works on the lock manager
notTxnVars == <<bufVars, walVars, recVars, engineVars, treeVars, pageVars, execVars, cvVars>>
\* the executors and the serializer work on what their callers hand them
notExecVars == <<lockVars, bufVars, walVars, recVars, engineVars, treeVars, pageVars, txnVars, cvVars>>
\* the threads that wait on the condition variables are those of the lock manager
notFairVars == <<bufVars, walVars, recVars, engineVars, treeVars, pageVars, txnVars, execVars>>

\* ------------------------------------------------------------------------
\* General helpers
\* ------------------------------------------------------------------------

Range(s) == {s[i] : i \in 1..Len(s)}

RECURSIVE SeqFilterTxn(_, _)
\* std::list::remove_if(r.txn_id == txn_id): the queue without txn's requests
SeqFilterTxn(q, txn) ==
    IF q = <<>> THEN <<>>
    ELSE IF Head(q).txn_id = txn THEN SeqFilterTxn(Tail(q), txn)
         ELSE <<Head(q)>> \o SeqFilterTxn(Tail(q), txn)

\* a function without one of its keys (unordered_map::erase)
MapErase(f, k) == [x \in (DOMAIN f) \ {k} |-> f[x]]

\* a function with one key set (unordered_map::operator[] assignment)
MapPut(f, k, v) == [x \in (DOMAIN f) \cup {k} |-> IF x = k THEN v ELSE f[x]]

\* ------------------------------------------------------------------------
\* Lock manager
\* ------------------------------------------------------------------------

NumTxns == 2

Txns == 1..NumTxns
INVALID_PAGE_ID == -1

\* the record ids the transactions lock: two slots of page 0
Rids == {[page_id |-> 0, slot_id |-> s] : s \in {0, 1}}

MakeKey(rid) == [page_id |-> rid.page_id, slot_id |-> rid.slot_id]

Keys == {MakeKey(r) : r \in Rids}

\* the key of INVALID_RECORD_ID: what wkey holds while the thread is in no call
NoKey == [page_id |-> INVALID_PAGE_ID, slot_id |-> 0]

\* the queue of a key; lock_table_[key] of the code creates the empty queue
QueueOf(table, key) == IF key \in DOMAIN table THEN table[key] ELSE <<>>

\* variant of CanGrantLock: a SHARED request ignores a granted EXCLUSIVE
CanGrantLock_NoExclusiveCheck(queue, mode) ==
    \A i \in 1..Len(queue) :
        queue[i].granted => mode # "EXCLUSIVE"

CanGrantLock(queue, mode) ==
    \A i \in 1..Len(queue) :
        queue[i].granted => (mode # "EXCLUSIVE" /\ queue[i].mode # "EXCLUSIVE")

\* variant of NoOtherGranted: only a granted EXCLUSIVE of another txn blocks
NoOtherGranted_OnlyExclusiveBlocks(queue, txn_id) ==
    \A i \in 1..Len(queue) :
        ~(queue[i].txn_id # txn_id /\ queue[i].granted /\ queue[i].mode = "EXCLUSIVE")

\* the loop condition of LockExclusive and LockUpgrade: no other txn holds a granted lock
NoOtherGranted(queue, txn_id) ==
    \A i \in 1..Len(queue) : ~(queue[i].txn_id # txn_id /\ queue[i].granted)

HoldsGranted(queue, txn_id) ==
    \E i \in 1..Len(queue) : queue[i].txn_id = txn_id /\ queue[i].granted

HoldsExclusive(queue, txn_id) ==
    \E i \in 1..Len(queue) :
        queue[i].txn_id = txn_id /\ queue[i].granted /\ queue[i].mode = "EXCLUSIVE"

\* `it` of LockShared / LockExclusive: the request the call pushed, the only
\* request of the txn that is not granted (a txn runs one call at a time)
PendingIndex(queue, txn_id) ==
    CHOOSE i \in 1..Len(queue) : queue[i].txn_id = txn_id /\ ~queue[i].granted

\* `it` of LockUpgrade: std::find_if, the first granted request of the txn
FirstGrantedIndex(queue, txn_id) ==
    CHOOSE i \in 1..Len(queue) :
        /\ queue[i].txn_id = txn_id /\ queue[i].granted
        /\ \A j \in 1..(i - 1) : ~(queue[j].txn_id = txn_id /\ queue[j].granted)

\* the request the blocked call of the txn pushed is still in the queue: no
\* UnlockAll of the txn has erased it, or the queue with it
HasPending(t) ==
    /\ wkey[t] \in DOMAIN lock_table_
    /\ \E i \in 1..Len(lock_table_[wkey[t]]) :
          lock_table_[wkey[t]][i].txn_id = t /\ ~lock_table_[wkey[t]][i].granted

\* it->granted = true; txn_locks_[txn_id].insert(key)
GrantPending(t, key) ==
    LET queue == lock_table_[key]
        i == PendingIndex(queue, t)
    IN /\ lock_table_' = [lock_table_ EXCEPT ![key][i].granted = TRUE]
       /\ txn_locks_' = MapPut(txn_locks_, t,
               (IF t \in DOMAIN txn_locks_ THEN txn_locks_[t] ELSE {}) \cup {key})

LockShared(t, rid) ==
    LET key == MakeKey(rid)
        queue == QueueOf(lock_table_, key)
        pushed == Append(queue, [txn_id |-> t, mode |-> "SHARED", granted |-> FALSE])
    IN /\ pc[t] = "idle"
       /\ IF HoldsGranted(queue, t)
          THEN UNCHANGED <<lock_table_, txn_locks_, pc, wkey>>
          ELSE IF CanGrantLock(pushed, "SHARED")
          THEN /\ lock_table_' = MapPut(lock_table_, key,
                       [pushed EXCEPT ![Len(pushed)].granted = TRUE])
               /\ txn_locks_' = MapPut(txn_locks_, t,
                       (IF t \in DOMAIN txn_locks_ THEN txn_locks_[t] ELSE {}) \cup {key})
               /\ UNCHANGED <<pc, wkey>>
          ELSE /\ lock_table_' = MapPut(lock_table_, key, pushed)
               /\ pc' = [pc EXCEPT ![t] = "wait_shared"]
               /\ wkey' = [wkey EXCEPT ![t] = key]
               /\ UNCHANGED txn_locks_

\* the blocked LockShared wakes, finds CanGrantLock true and returns
WakeShared(t) ==
    /\ pc[t] = "wait_shared"
    /\ HasPending(t)
    /\ CanGrantLock(lock_table_[wkey[t]], "SHARED")
    /\ GrantPending(t, wkey[t])
    /\ pc' = [pc EXCEPT ![t] = "idle"]
    /\ wkey' = [wkey EXCEPT ![t] = NoKey]

LockExclusive(t, rid) ==
    LET key == MakeKey(rid)
        queue == QueueOf(lock_table_, key)
        pushed == Append(queue, [txn_id |-> t, mode |-> "EXCLUSIVE", granted |-> FALSE])
    IN /\ pc[t] = "idle"
       /\ IF HoldsExclusive(queue, t)
          THEN UNCHANGED <<lock_table_, txn_locks_, pc, wkey>>
          ELSE IF NoOtherGranted(pushed, t)
          THEN /\ lock_table_' = MapPut(lock_table_, key,
                       [pushed EXCEPT ![Len(pushed)].granted = TRUE])
               /\ txn_locks_' = MapPut(txn_locks_, t,
                       (IF t \in DOMAIN txn_locks_ THEN txn_locks_[t] ELSE {}) \cup {key})
               /\ UNCHANGED <<pc, wkey>>
          ELSE /\ lock_table_' = MapPut(lock_table_, key, pushed)
               /\ pc' = [pc EXCEPT ![t] = "wait_exclusive"]
               /\ wkey' = [wkey EXCEPT ![t] = key]
               /\ UNCHANGED txn_locks_

\* the blocked LockExclusive wakes, finds no other granted request and returns
WakeExclusive(t) ==
    /\ pc[t] = "wait_exclusive"
    /\ HasPending(t)
    /\ NoOtherGranted(lock_table_[wkey[t]], t)
    /\ GrantPending(t, wkey[t])
    /\ pc' = [pc EXCEPT ![t] = "idle"]
    /\ wkey' = [wkey EXCEPT ![t] = NoKey]

LockUpgrade(t, rid) ==
    LET key == MakeKey(rid)
        queue == QueueOf(lock_table_, key)
    IN /\ pc[t] = "idle"
       /\ IF key \notin DOMAIN lock_table_ \/ ~HoldsGranted(queue, t)
          THEN UNCHANGED <<lock_table_, txn_locks_, pc, wkey>>
          ELSE IF queue[FirstGrantedIndex(queue, t)].mode = "EXCLUSIVE"
          THEN UNCHANGED <<lock_table_, txn_locks_, pc, wkey>>
          ELSE IF NoOtherGranted(queue, t)
          THEN /\ lock_table_' = [lock_table_ EXCEPT
                       ![key][FirstGrantedIndex(queue, t)].mode = "EXCLUSIVE"]
               /\ UNCHANGED <<txn_locks_, pc, wkey>>
          ELSE /\ pc' = [pc EXCEPT ![t] = "wait_upgrade"]
               /\ wkey' = [wkey EXCEPT ![t] = key]
               /\ UNCHANGED <<lock_table_, txn_locks_>>

\* the blocked LockUpgrade wakes, finds no other granted request and returns
WakeUpgrade(t) ==
    LET queue == QueueOf(lock_table_, wkey[t])
    IN /\ pc[t] = "wait_upgrade"
       /\ HoldsGranted(queue, t)
       /\ NoOtherGranted(queue, t)
       /\ lock_table_' = [lock_table_ EXCEPT
               ![wkey[t]][FirstGrantedIndex(queue, t)].mode = "EXCLUSIVE"]
       /\ pc' = [pc EXCEPT ![t] = "idle"]
       /\ wkey' = [wkey EXCEPT ![t] = NoKey]
       /\ UNCHANGED txn_locks_

\* variant of UnlockedTable: the queues of the keys are erased whole
UnlockedTable_ErasesQueues(table, keys, txn_id) == [k \in DOMAIN table \ keys |-> table[k]]

\* the lock table after UnlockAll's loop over the keys of the txn
UnlockedTable(table, keys, txn_id) ==
    LET remaining(k) == SeqFilterTxn(table[k], txn_id)
        kept == {k \in DOMAIN table : k \notin keys \/ remaining(k) # <<>>}
    IN [k \in kept |-> IF k \in keys THEN remaining(k) ELSE table[k]]

\* LockManager::UnlockAll
ReleaseAll(t) ==
    IF t \notin DOMAIN txn_locks_
    THEN UNCHANGED <<lock_table_, txn_locks_>>
    ELSE /\ lock_table_' = UnlockedTable(lock_table_, txn_locks_[t], t)
         /\ txn_locks_' = MapErase(txn_locks_, t)

\* UnlockAll called by the thread of the txn, which is in no lock call
UnlockAll(t) ==
    /\ pc[t] = "idle"
    /\ ReleaseAll(t)
    /\ UNCHANGED <<pc, wkey>>

\* ------------------------------------------------------------------------
\* Transaction manager
\* ------------------------------------------------------------------------

\* the number of transactions the callers begin
MaxTxns == 3

\* the ids Begin can allocate
TxnIds == 0..(MaxTxns - 1)

\* the record ids the begun transactions contend for: slot 0 of page 0
TxnRids == {r \in Rids : r.slot_id = 0}

\* TransactionManager(lock_manager): next_txn_id_{0} and an empty txn_map_
NewTransactionManager == [next_txn_id_ |-> 0, txn_map_ |-> <<>>]

\* variant of FetchAdd: the counter is read and not advanced
FetchAdd_NotAdvanced(counter) == counter

\* next_txn_id_.fetch_add(1): the counter after the atomic increment
FetchAdd(counter) == counter + 1

\* no thread has faulted
Alive == \A t \in DOMAIN pc : pc[t] # "dead"

\* Begin up to the registration: the id is drawn and the Transaction, whose
\* constructor sets GROWING, is made; the caller holds no pointer yet
BeginAllocate ==
    LET txn_id == txn_mgr.next_txn_id_
    IN /\ Alive
       /\ Len(txn_ids) < MaxTxns
       /\ txn_mgr' = [txn_mgr EXCEPT !.next_txn_id_ = FetchAdd(txn_mgr.next_txn_id_)]
       /\ txn_call' = [txn_call EXCEPT ![txn_id] = "begin"]
       /\ txn_ids' = Append(txn_ids, txn_id)
       /\ UNCHANGED lockVars

\* Begin from the latch on: txn_map_[txn_id] = std::move(txn); return ptr
BeginRegister(txn_id) ==
    /\ Alive
    /\ txn_call[txn_id] = "begin"
    /\ txn_mgr' = [txn_mgr EXCEPT !.txn_map_ = MapPut(txn_mgr.txn_map_, txn_id, "GROWING")]
    /\ txn_call' = [txn_call EXCEPT ![txn_id] = "none"]
    /\ UNCHANGED <<lockVars, txn_ids>>

\* Begin has returned the pointer of the transaction
Begun(txn_id) == txn_id \in DOMAIN txn_mgr.txn_map_

\* Commit and Abort up to UnlockAll: txn->state = SHRINKING.  The thread of
\* the transaction commits it between two lock calls; another thread may
\* abort it while its lock call waits.
EndStart(txn_id, call) ==
    /\ Begun(txn_id)
    /\ txn_call[txn_id] = "none"
    /\ txn_mgr.txn_map_[txn_id] = "GROWING"
    /\ IF call = "commit" THEN pc[txn_id] = "idle" ELSE pc[txn_id] # "dead"
    /\ txn_mgr' = [txn_mgr EXCEPT !.txn_map_[txn_id] = "SHRINKING"]
    /\ txn_call' = [txn_call EXCEPT ![txn_id] = call]
    /\ UNCHANGED <<lockVars, txn_ids>>

\* lock_manager_->UnlockAll(txn->txn_id)
EndUnlock(txn_id) ==
    /\ Alive
    /\ txn_call[txn_id] \in {"commit", "abort"}
    /\ ReleaseAll(txn_id)
    /\ txn_call' = [txn_call EXCEPT ![txn_id] = txn_call[txn_id] \o "_unlocked"]
    /\ UNCHANGED <<pc, wkey, txn_mgr, txn_ids>>

\* txn->state = COMMITTED, or ABORTED; the call returns
EndReturn(txn_id) ==
    /\ Alive
    /\ txn_call[txn_id] \in {"commit_unlocked", "abort_unlocked"}
    /\ txn_mgr' = [txn_mgr EXCEPT !.txn_map_[txn_id] =
           IF txn_call[txn_id] = "commit_unlocked" THEN "COMMITTED" ELSE "ABORTED"]
    /\ txn_call' = [txn_call EXCEPT ![txn_id] = "none"]
    /\ UNCHANGED <<lockVars, txn_ids>>

\* the thread of a begun transaction may call the lock manager: it is not
\* inside Commit.  The lock manager is handed the id alone, so the callers
\* can pass the id of a transaction in any state.
MayLock(txn_id) ==
    /\ Begun(txn_id)
    /\ txn_call[txn_id] \notin {"commit", "commit_unlocked"}

\* a lock call of a begun transaction, and its wake-up
TxnLock(txn_id, rid) ==
    /\ MayLock(txn_id)
    /\ \/ LockShared(txn_id, rid)
       \/ LockExclusive(txn_id, rid)
       \/ LockUpgrade(txn_id, rid)
    /\ UNCHANGED txnVars

TxnWake(txn_id) ==
    /\ \/ WakeShared(txn_id)
       \/ WakeExclusive(txn_id)
       \/ WakeUpgrade(txn_id)
    /\ UNCHANGED txnVars

\* the request `it` of the blocked call points to was erased by UnlockAll
Erased(t) ==
    \/ pc[t] \in {"wait_shared", "wait_exclusive"} /\ ~HasPending(t)
    \/ pc[t] = "wait_upgrade" /\ ~HoldsGranted(QueueOf(lock_table_, wkey[t]), t)

\* the blocked call wakes after UnlockAll of its own txn erased its request,
\* and the queue too if it became empty: the loop reads the queue through a
\* reference that may dangle and the call writes through the iterator of an
\* erased node.  The thread faults, or the write lands in freed memory and
\* the call returns, LockShared and LockExclusive having inserted the key.
WakeErased(t) ==
    LET queue == QueueOf(lock_table_, wkey[t])
    IN /\ Erased(t)
       /\ \/ /\ pc' = [u \in DOMAIN pc |-> "dead"]
             /\ UNCHANGED <<lock_table_, txn_locks_, wkey>>
          \/ /\ IF pc[t] = "wait_shared"
                THEN CanGrantLock(queue, "SHARED")
                ELSE NoOtherGranted(queue, t)
             /\ txn_locks_' =
                   IF pc[t] = "wait_upgrade" THEN txn_locks_
                   ELSE MapPut(txn_locks_, t,
                           (IF t \in DOMAIN txn_locks_ THEN txn_locks_[t] ELSE {})
                               \cup {wkey[t]})
             /\ pc' = [pc EXCEPT ![t] = "idle"]
             /\ wkey' = [wkey EXCEPT ![t] = NoKey]
             /\ UNCHANGED lock_table_
       /\ UNCHANGED txnVars

\* ------------------------------------------------------------------------
\* Pages and the disk manager
\* ------------------------------------------------------------------------

\* the page size of the model, in bytes (DBConfigs::page_size is 4096)
PageSize == 40
\* the largest page id the callers use
MaxPageId == 2
\* the number of frames of the pool
PoolSize == 2
\* the largest pin count the callers let a frame reach
MaxPin == 2
\* the largest byte a caller writes
MaxVal == 1
\* the number of Page* pointers the callers hold at a time
MaxHandles == 2

PageIds == 0..MaxPageId
Frames == 0..(PoolSize - 1)
INVALID_FRAME_ID == -1

\* Page::ResetMemory: a buffer of PageSize zero bytes; the byte at offset o
\* of a buffer is its element o + 1
ZeroPage == [i \in 1..PageSize |-> 0]

\* pread: a page past the end of the file reads as zeros
ReadPage(file, page_id) ==
    IF page_id + 1 <= Len(file) THEN file[page_id + 1] ELSE ZeroPage

\* pwrite at offset page_id * page_size: the file grows, a hole reads as zeros
WritePage(file, page_id, data) ==
    [i \in 1..(IF page_id + 1 > Len(file) THEN page_id + 1 ELSE Len(file)) |->
        IF i = page_id + 1 THEN data
        ELSE IF i <= Len(file) THEN file[i] ELSE ZeroPage]

\* ------------------------------------------------------------------------
\* LRU replacer
\* ------------------------------------------------------------------------

SeqRemove(q, x) == SelectSeq(q, LAMBDA y : y # x)

\* LRUReplacer::Pin: the frame is no longer a candidate
LRUPin(lru, frame_id) == SeqRemove(lru, frame_id)

\* LRUReplacer::Unpin: push_front unless already listed
LRUUnpin(lru, frame_id) ==
    IF frame_id \in Range(lru) THEN lru ELSE <<frame_id>> \o lru

\* LRUReplacer::Victim: the back of the list
LRUVictim(lru) ==
    IF lru = <<>> THEN [ok |-> FALSE, frame |-> INVALID_FRAME_ID, lru |-> lru]
    ELSE [ok |-> TRUE, frame |-> lru[Len(lru)], lru |-> SubSeq(lru, 1, Len(lru) - 1)]

\* ------------------------------------------------------------------------
\* Buffer pool manager: each operation maps the pool (and the disk) to the
\* pool (and the disk) after the call, and what the call returns
\* ------------------------------------------------------------------------

NewBufferPool ==
    [pages_ |-> [f \in Frames |-> [page_id_ |-> INVALID_PAGE_ID, pin_count_ |-> 0,
                                   is_dirty_ |-> FALSE, data_ |-> ZeroPage]],
     page_table_ |-> <<>>,
     free_list_ |-> [i \in 1..PoolSize |-> i - 1],
     lru_list_ |-> <<>>]

FindFreeFrame(b) ==
    IF b.free_list_ # <<>>
    THEN [ok |-> TRUE, frame |-> Head(b.free_list_),
          bpm |-> [b EXCEPT !.free_list_ = Tail(b.free_list_)]]
    ELSE LET v == LRUVictim(b.lru_list_)
         IN [ok |-> v.ok, frame |-> v.frame, bpm |-> [b EXCEPT !.lru_list_ = v.lru]]

\* the disk after "if (page->IsDirty()) WritePage(page->GetPageId(), page->GetData())"
WriteIfDirty(d, page) ==
    IF page.is_dirty_ THEN [d EXCEPT !.file = WritePage(d.file, page.page_id_, page.data_)]
    ELSE d

\* variant of Rebind that leaves the victim's old page-table entry in place
Rebind_KeepsOldMapping(b, frame, page_id, data) ==
    [b EXCEPT
        !.page_table_ = MapPut(b.page_table_, page_id, frame),
        !.pages_[frame] = [page_id_ |-> page_id, pin_count_ |-> 1,
                           is_dirty_ |-> FALSE, data_ |-> data],
        !.lru_list_ = LRUPin(b.lru_list_, frame)]

\* the frame bound to page_id, pinned once, with the content data
Rebind(b, frame, page_id, data) ==
    [b EXCEPT
        !.page_table_ = MapPut(MapErase(b.page_table_, b.pages_[frame].page_id_),
                               page_id, frame),
        !.pages_[frame] = [page_id_ |-> page_id, pin_count_ |-> 1,
                           is_dirty_ |-> FALSE, data_ |-> data],
        !.lru_list_ = LRUPin(b.lru_list_, frame)]

FetchPage(b, d, page_id) ==
    IF page_id \in DOMAIN b.page_table_
    THEN LET frame == b.page_table_[page_id]
         IN [bpm |-> [b EXCEPT !.lru_list_ = LRUPin(b.lru_list_, frame),
                               !.pages_[frame].pin_count_ = @ + 1],
             disk |-> d, frame |-> frame]
    ELSE LET ff == FindFreeFrame(b)
         IN IF ~ff.ok THEN [bpm |-> b, disk |-> d, frame |-> INVALID_FRAME_ID]
            ELSE LET d2 == WriteIfDirty(d, ff.bpm.pages_[ff.frame])
                 IN [bpm |-> Rebind(ff.bpm, ff.frame, page_id, ReadPage(d2.file, page_id)),
                     disk |-> d2, frame |-> ff.frame]

NewPage(b, d) ==
    LET ff == FindFreeFrame(b)
    IN IF ~ff.ok
       THEN [bpm |-> b, disk |-> d, frame |-> INVALID_FRAME_ID, page_id |-> INVALID_PAGE_ID]
       ELSE LET id == d.next_page_id_
                d1 == [d EXCEPT !.next_page_id_ = @ + 1]
                d2 == WriteIfDirty(d1, ff.bpm.pages_[ff.frame])
            IN [bpm |-> Rebind(ff.bpm, ff.frame, id, ZeroPage),
                disk |-> d2, frame |-> ff.frame, page_id |-> id]

\* variant of UnpinPage that hands the frame to the replacer at every unpin,
\* whatever pin count is left
UnpinPage_AlwaysReplaceable(b, page_id, is_dirty) ==
    IF page_id \notin DOMAIN b.page_table_ THEN [bpm |-> b, ok |-> FALSE]
    ELSE LET frame == b.page_table_[page_id]
             b1 == IF is_dirty THEN [b EXCEPT !.pages_[frame].is_dirty_ = TRUE] ELSE b
         IN IF b1.pages_[frame].pin_count_ <= 0 THEN [bpm |-> b1, ok |-> FALSE]
            ELSE LET b2 == [b1 EXCEPT !.pages_[frame].pin_count_ = @ - 1]
                 IN [bpm |-> [b2 EXCEPT !.lru_list_ = LRUUnpin(b2.lru_list_, frame)],
                     ok |-> TRUE]

UnpinPage(b, page_id, is_dirty) ==
    IF page_id \notin DOMAIN b.page_table_ THEN [bpm |-> b, ok |-> FALSE]
    ELSE LET frame == b.page_table_[page_id]
             b1 == IF is_dirty THEN [b EXCEPT !.pages_[frame].is_dirty_ = TRUE] ELSE b
         IN IF b1.pages_[frame].pin_count_ <= 0 THEN [bpm |-> b1, ok |-> FALSE]
            ELSE LET b2 == [b1 EXCEPT !.pages_[frame].pin_count_ = @ - 1]
                 IN [bpm |-> IF b2.pages_[frame].pin_count_ = 0
                             THEN [b2 EXCEPT !.lru_list_ = LRUUnpin(b2.lru_list_, frame)]
                             ELSE b2,
                     ok |-> TRUE]

FlushPage(b, d, page_id) ==
    IF page_id \notin DOMAIN b.page_table_ THEN [bpm |-> b, disk |-> d, ok |-> FALSE]
    ELSE LET frame == b.page_table_[page_id]
         IN [bpm |-> [b EXCEPT !.pages_[frame].is_dirty_ = FALSE],
             disk |-> [d EXCEPT !.file = WritePage(d.file, page_id, b.pages_[frame].data_)],
             ok |-> TRUE]

RECURSIVE FlushFrames(_, _, _)
\* the loop of FlushAllPages over the entries of page_table_ still to visit
FlushFrames(b, d, pids) ==
    IF pids = {} THEN [bpm |-> b, disk |-> d]
    ELSE LET pid == CHOOSE x \in pids : TRUE
             fid == b.page_table_[pid]
             page == b.pages_[fid]
         IN IF page.is_dirty_ /\ page.page_id_ # INVALID_PAGE_ID
            THEN FlushFrames([b EXCEPT !.pages_[fid].is_dirty_ = FALSE],
                             [d EXCEPT !.file = WritePage(d.file, page.page_id_, page.data_)],
                             pids \ {pid})
            ELSE FlushFrames(b, d, pids \ {pid})

FlushAllPages(b, d) == FlushFrames(b, d, DOMAIN b.page_table_)

DeletePage(b, page_id) ==
    IF page_id \notin DOMAIN b.page_table_ THEN [bpm |-> b, ok |-> TRUE]
    ELSE LET frame == b.page_table_[page_id]
         IN IF b.pages_[frame].pin_count_ > 0 THEN [bpm |-> b, ok |-> FALSE]
            ELSE [bpm |-> [b EXCEPT
                        !.page_table_ = MapErase(b.page_table_, page_id),
                        !.pages_[frame] = [page_id_ |-> INVALID_PAGE_ID, pin_count_ |-> 0,
                                           is_dirty_ |-> FALSE, data_ |-> ZeroPage],
                        !.free_list_ = Append(b.free_list_, frame)],
                  ok |-> TRUE]

\* ------------------------------------------------------------------------
\* Callers of the buffer pool
\* ------------------------------------------------------------------------

NewDisk == [file |-> <<>>, next_page_id_ |-> 0]

NoHandle == [frame |-> INVALID_FRAME_ID, page_id |-> INVALID_PAGE_ID, wrote |-> FALSE]

\* the callers keep pin counts up to MaxPin
PinRoom(page_id) ==
    page_id \in DOMAIN bpm.page_table_ =>
        bpm.pages_[bpm.page_table_[page_id]].pin_count_ < MaxPin

\* -- any caller, any argument: the calls of the pool in any order --

BufFetchPage(page_id) ==
    /\ PinRoom(page_id)
    /\ LET r == FetchPage(bpm, disk, page_id)
       IN bpm' = r.bpm /\ disk' = r.disk
    /\ UNCHANGED <<handles, store>>

BufNewPage ==
    /\ disk.next_page_id_ <= MaxPageId
    /\ LET r == NewPage(bpm, disk)
       IN bpm' = r.bpm /\ disk' = r.disk
    /\ UNCHANGED <<handles, store>>

BufUnpinPage(page_id, is_dirty) ==
    /\ bpm' = UnpinPage(bpm, page_id, is_dirty).bpm
    /\ UNCHANGED <<disk, handles, store>>

BufFlushPage(page_id) ==
    /\ LET r == FlushPage(bpm, disk, page_id)
       IN bpm' = r.bpm /\ disk' = r.disk
    /\ UNCHANGED <<handles, store>>

BufFlushAllPages ==
    /\ LET r == FlushAllPages(bpm, disk)
       IN bpm' = r.bpm /\ disk' = r.disk
    /\ UNCHANGED <<handles, store>>

BufDeletePage(page_id) ==
    /\ bpm' = DeletePage(bpm, page_id).bpm
    /\ UNCHANGED <<disk, handles, store>>

\* -- callers that keep the pin discipline: a caller writes into a page only
\* -- through a pointer it got from fetch or new_page and has not unpinned,
\* -- and unpins with dirty = true once it has written --

StoreFetchPage(h, page_id) ==
    /\ handles[h] = NoHandle
    /\ PinRoom(page_id)
    /\ LET r == FetchPage(bpm, disk, page_id)
       IN /\ bpm' = r.bpm
          /\ disk' = r.disk
          /\ handles' = IF r.frame = INVALID_FRAME_ID THEN handles
                        ELSE [handles EXCEPT ![h] =
                                [frame |-> r.frame, page_id |-> page_id, wrote |-> FALSE]]
    /\ UNCHANGED store

StoreNewPage(h) ==
    /\ handles[h] = NoHandle
    /\ disk.next_page_id_ <= MaxPageId
    /\ LET r == NewPage(bpm, disk)
       IN /\ bpm' = r.bpm
          /\ disk' = r.disk
          /\ handles' = IF r.frame = INVALID_FRAME_ID THEN handles
                        ELSE [handles EXCEPT ![h] =
                                [frame |-> r.frame, page_id |-> r.page_id, wrote |-> FALSE]]
    /\ UNCHANGED store

\* the caller writes byte v at offset 0 of page->GetData()
StoreWrite(h, v) ==
    /\ handles[h] # NoHandle
    /\ LET frame == handles[h].frame
           data == [bpm.pages_[frame].data_ EXCEPT ![1] = v]
       IN /\ bpm' = [bpm EXCEPT !.pages_[frame].data_ = data]
          /\ store' = [store EXCEPT ![handles[h].page_id] = data]
    /\ handles' = [handles EXCEPT ![h].wrote = TRUE]
    /\ UNCHANGED disk

StoreUnpinPage(h, is_dirty) ==
    /\ handles[h] # NoHandle
    /\ handles[h].wrote => is_dirty
    /\ bpm' = UnpinPage(bpm, handles[h].page_id, is_dirty).bpm
    /\ handles' = [handles EXCEPT ![h] = NoHandle]
    /\ UNCHANGED <<disk, store>>

StoreFlushPage(page_id) ==
    /\ LET r == FlushPage(bpm, disk, page_id)
       IN bpm' = r.bpm /\ disk' = r.disk
    /\ UNCHANGED <<handles, store>>

StoreFlushAllPages ==
    /\ LET r == FlushAllPages(bpm, disk)
       IN bpm' = r.bpm /\ disk' = r.disk
    /\ UNCHANGED <<handles, store>>

\* ------------------------------------------------------------------------
\* Write-ahead log: records and their byte format
\* ------------------------------------------------------------------------

\* the number of log records the callers append in all
MaxLogRecords == 3

INVALID_LSN == -1

\* enum class LogRecordType : uint8_t
BEGIN == 0
COMMIT == 1
ABORT == 2
INSERT == 3
DELETE == 4
UPDATE == 5

RECURSIVE LEBytes(_, _)
\* the n bytes of the two's-complement integer v, least significant first
\* (what copying n bytes from &v gives on the little-endian build)
LEBytes(v, n) == IF n = 0 THEN <<>> ELSE <<v % 256>> \o LEBytes(v \div 256, n - 1)

RECURSIVE UnsignedLE(_)
\* memcpy of the bytes into a uintN_t
UnsignedLE(bytes) ==
    IF bytes = <<>> THEN 0 ELSE Head(bytes) + 256 * UnsignedLE(Tail(bytes))

RECURSIVE SignedLE(_)
\* memcpy of the bytes into an intN_t
SignedLE(bytes) ==
    IF Len(bytes) = 1 THEN (IF bytes[1] < 128 THEN bytes[1] ELSE bytes[1] - 256)
    ELSE Head(bytes) + 256 * SignedLE(Tail(bytes))

\* the n bytes of data from offset on (offsets count from 0)
BytesAt(data, offset, n) == SubSeq(data, offset + 1, offset + n)

Serialize(record) ==
    LET body == LEBytes(record.lsn, 8) \o LEBytes(record.txn_id, 8)
                \o LEBytes(record.prev_lsn, 8) \o <<record.type>>
                \o LEBytes(record.page_id, 4) \o LEBytes(record.slot_id, 2)
                \o LEBytes(Len(record.before_image), 4) \o record.before_image
                \o LEBytes(Len(record.after_image), 4) \o record.after_image
    IN LEBytes(Len(body) + 4, 4) \o body

\* the fixed part of a record after total_size, up to and including before_len
FixedLen == 8 + 8 + 8 + 1 + 4 + 2 + 4

NoRecord ==
    [lsn |-> INVALID_LSN, txn_id |-> 0, prev_lsn |-> INVALID_LSN, type |-> BEGIN,
     page_id |-> INVALID_PAGE_ID, slot_id |-> 0, before_image |-> <<>>, after_image |-> <<>>]

\* Deserialize(data, size, offset): ok = FALSE is the throw on a missing size
\* field; it is the only bounds check, so a record cut short is read past the
\* end of the buffer: ub = TRUE, and the record and offset mean nothing.
Deserialize(data, offset) ==
    LET size == Len(data)
        o1 == offset + 4
    IN IF offset + 4 > size
       THEN [ok |-> FALSE, ub |-> FALSE, record |-> NoRecord, offset |-> offset]
       ELSE IF o1 + FixedLen > size
       THEN [ok |-> TRUE, ub |-> TRUE, record |-> NoRecord, offset |-> o1]
       ELSE LET before_len == UnsignedLE(BytesAt(data, o1 + 31, 4))
                o2 == o1 + FixedLen
            IN IF o2 + before_len + 4 > size
               THEN [ok |-> TRUE, ub |-> TRUE, record |-> NoRecord, offset |-> o2]
               ELSE LET after_len == UnsignedLE(BytesAt(data, o2 + before_len, 4))
                        o3 == o2 + before_len + 4
                    IN IF o3 + after_len > size
                       THEN [ok |-> TRUE, ub |-> TRUE, record |-> NoRecord, offset |-> o3]
                       ELSE [ok |-> TRUE, ub |-> FALSE,
                             record |->
                               [lsn |-> SignedLE(BytesAt(data, o1, 8)),
                                txn_id |-> SignedLE(BytesAt(data, o1 + 8, 8)),
                                prev_lsn |-> SignedLE(BytesAt(data, o1 + 16, 8)),
                                type |-> data[o1 + 24 + 1],
                                page_id |-> SignedLE(BytesAt(data, o1 + 25, 4)),
                                slot_id |-> UnsignedLE(BytesAt(data, o1 + 29, 2)),
                                before_image |-> BytesAt(data, o2, before_len),
                                after_image |-> BytesAt(data, o3, after_len)],
                             offset |-> o3 + after_len]

RECURSIVE ReadFrom(_, _, _)
\* the loop of ReadAllRecords from offset on, records holding what was read
ReadFrom(data, offset, records) ==
    IF offset >= Len(data) THEN [records |-> records, ub |-> FALSE]
    ELSE LET r == Deserialize(data, offset)
         IN IF ~r.ok THEN [records |-> records, ub |-> FALSE]
            ELSE IF r.ub THEN [records |-> records, ub |-> TRUE]
            ELSE ReadFrom(data, r.offset, Append(records, r.record))

\* ReadAllRecords on a log file with the bytes data
ReadAllRecords(data) == ReadFrom(data, 0, <<>>)

\* ------------------------------------------------------------------------
\* Write-ahead log: the WAL object
\* ------------------------------------------------------------------------

\* WAL::WAL: the file is opened for appending and not read
NewWAL == [open |-> TRUE, next_lsn_ |-> 0, txn_prev_lsn_ |-> <<>>, buffer_ |-> <<>>]

\* variant of GetPrevLSN that never finds the transaction
GetPrevLSN_NeverFound(w, txn_id) == INVALID_LSN

GetPrevLSN(w, txn_id) ==
    IF txn_id \in DOMAIN w.txn_prev_lsn_ THEN w.txn_prev_lsn_[txn_id] ELSE INVALID_LSN

\* variant of AppendLogRecord without the forced write on COMMIT
AppendLogRecord_NoForce(w, file, input) ==
    LET record == [input EXCEPT !.lsn = w.next_lsn_,
                                !.prev_lsn = GetPrevLSN(w, input.txn_id)]
        w1 == [w EXCEPT !.next_lsn_ = @ + 1,
                        !.txn_prev_lsn_ = MapPut(@, record.txn_id, record.lsn),
                        !.buffer_ = @ \o Serialize(record)]
    IN [wal |-> w1, file |-> file, record |-> record]

\* AppendLogRecord on the WAL w over the log file: the WAL and the file
\* after the call and the record as the call leaves it with the caller
AppendLogRecord(w, file, input) ==
    LET record == [input EXCEPT !.lsn = w.next_lsn_,
                                !.prev_lsn = GetPrevLSN(w, input.txn_id)]
        w1 == [w EXCEPT !.next_lsn_ = @ + 1,
                        !.txn_prev_lsn_ = MapPut(@, record.txn_id, record.lsn),
                        !.buffer_ = @ \o Serialize(record)]
    IN IF record.type = COMMIT
       THEN [wal |-> [w1 EXCEPT !.buffer_ = <<>>], file |-> file \o w1.buffer_,
             record |-> record]
       ELSE [wal |-> w1, file |-> file, record |-> record]

\* variant of Flush that clears the buffer without writing it
Flush_NotWritten(w, file) == [wal |-> [w EXCEPT !.buffer_ = <<>>], file |-> file]

\* WAL::Flush
Flush(w, file) ==
    IF w.buffer_ # <<>> THEN [wal |-> [w EXCEPT !.buffer_ = <<>>], file |-> file \o w.buffer_]
    ELSE [wal |-> w, file |-> file]

\* the records a caller hands to AppendLogRecord: lsn and prev_lsn are
\* whatever the caller left there, the call overwrites both
LogInput(txn_id, type) ==
    [NoRecord EXCEPT
        !.txn_id = txn_id,
        !.type = type,
        !.page_id = IF type \in {INSERT, DELETE, UPDATE} THEN 0 ELSE INVALID_PAGE_ID,
        !.before_image = IF type \in {DELETE, UPDATE} THEN <<1>> ELSE <<>>,
        !.after_image = IF type = INSERT THEN <<1>>
                        ELSE IF type = UPDATE THEN <<2>> ELSE <<>>]

\* the callers of the log: two transactions that begin, log a change and
\* commit, in any order and any number of times
WalTxnIds == {1, 2}
WalInputTypes == {BEGIN, UPDATE, COMMIT}

\* the number of records in the file when this instance opened it
RecordsAtOpen == Len(ReadAllRecords(SubSeq(log_file, 1, open_pos)).records)

\* a thread calls AppendLogRecord; the latch makes the call one step
WalAppend(txn_id, type) ==
    /\ wal.open
    /\ RecordsAtOpen + Len(appended) < MaxLogRecords
    /\ LET r == AppendLogRecord(wal, log_file, LogInput(txn_id, type))
       IN /\ wal' = r.wal
          /\ log_file' = r.file
          /\ appended' = Append(appended, r.record)
    /\ UNCHANGED open_pos

WalFlush ==
    /\ wal.open
    /\ LET r == Flush(wal, log_file)
       IN wal' = r.wal /\ log_file' = r.file
    /\ UNCHANGED <<appended, open_pos>>

\* WAL::~WAL: what is buffered is written, the file is closed
WalClose ==
    /\ wal.open
    /\ LET r == Flush(wal, log_file)
       IN wal' = [r.wal EXCEPT !.open = FALSE] /\ log_file' = r.file
    /\ UNCHANGED <<appended, open_pos>>

\* the process dies: the buffer is gone, the file keeps what was written
WalCrash ==
    /\ wal.open
    /\ wal' = [wal EXCEPT !.open = FALSE, !.buffer_ = <<>>]
    /\ UNCHANGED <<log_file, appended, open_pos>>

\* a new WAL object on the same file
WalOpen ==
    /\ ~wal.open
    /\ wal' = NewWAL
    /\ appended' = <<>>
    /\ open_pos' = Len(log_file)
    /\ UNCHANGED log_file

\* the log file is cut at byte n, as a write that the death of the process
\* or of the machine left unfinished
WalCut(n) ==
    /\ ~wal.open
    /\ n < Len(log_file)
    /\ log_file' = SubSeq(log_file, 1, n)
    /\ UNCHANGED <<wal, appended, open_pos>>

RECURSIVE Written(_)
\* the bytes of the records as AppendLogRecord puts them into the buffer
Written(records) ==
    IF records = <<>> THEN <<>> ELSE Serialize(Head(records)) \o Written(Tail(records))

\* the file holds the first k appended records and nothing else
WholeRecords(k) == log_file = Written(SubSeq(appended, 1, k))

\* bytes that are no log record: a lone byte, and a size field with one
\* byte after it
Garbage == {<<7>>, <<9, 0, 0, 0, 7>>}

\* the log file ends in garbage
WalGarbage(bytes) ==
    /\ ~wal.open
    /\ \E k \in 0..Len(appended) : WholeRecords(k)
    /\ log_file' = log_file \o bytes
    /\ UNCHANGED <<wal, appended, open_pos>>


\* ------------------------------------------------------------------------
\* Slotted page: PageHeader (8 bytes), SlotEntry (4 bytes), records from the
\* end of the page
\* ------------------------------------------------------------------------

\* the uint16_t at offset o of the page
U16(data, o) == data[o + 1] + 256 * data[o + 2]

\* the page with the uint16_t v stored at offset o
PutU16(data, o, v) ==
    [data EXCEPT ![o + 1] = v % 256, ![o + 2] = (v \div 256) % 256]

\* sizeof(PageHeader) and sizeof(SlotEntry)
HeaderSize == 2 + 2 + 2 + 2
SlotSize == 2 + 2

\* offsets of the fields of the header, of a slot entry and of its fields
NumSlotsAt == 0
FreeBeginAt == NumSlotsAt + 2
FreeEndAt == FreeBeginAt + 2
SlotAt(slot_id) == HeaderSize + slot_id * SlotSize
SlotOffsetAt(slot_id) == SlotAt(slot_id)
SlotLengthAt(slot_id) == SlotAt(slot_id) + 2

\* SlottedPage::Init(page_data, PAGE_SIZE)
SlottedInit == PutU16(PutU16(ZeroPage, FreeBeginAt, HeaderSize), FreeEndAt, PageSize)

\* memcpy(page_data + o, record, record_len): the bytes of the buffer after it
PutBytes(data, o, record) ==
    [i \in 1..Len(data) |->
        IF i > o /\ i <= o + Len(record) THEN record[i - o] ELSE data[i]]

\* InsertRecord: the page after the call and the slot id returned
InsertRecord(data, record) ==
    LET num_slots == U16(data, NumSlotsAt)
        free == {i \in 0..(num_slots - 1) : U16(data, SlotLengthAt(i)) = 0}
        reuse == free # {}
        record_len == Len(record)
        space_needed == IF reuse THEN record_len ELSE (record_len + SlotSize) % 65536
        free_space_end == (U16(data, FreeEndAt) - record_len) % 65536
        target_slot == IF reuse THEN CHOOSE i \in free : \A j \in free : i <= j
                       ELSE num_slots
    IN IF U16(data, FreeEndAt) - U16(data, FreeBeginAt) < space_needed
       THEN [data |-> data, slot |-> -1]
       ELSE LET d1 == PutBytes(PutU16(data, FreeEndAt, free_space_end),
                               free_space_end, record)
                d2 == IF reuse THEN d1
                      ELSE PutU16(PutU16(d1, NumSlotsAt, (num_slots + 1) % 65536),
                                  FreeBeginAt, (U16(data, FreeBeginAt) + SlotSize) % 65536)
            IN [data |-> PutU16(PutU16(d2, SlotOffsetAt(target_slot), free_space_end),
                                SlotLengthAt(target_slot), record_len),
                slot |-> target_slot]

DeleteRecord(data, slot_id) ==
    IF slot_id >= U16(data, NumSlotsAt) THEN [data |-> data, ok |-> FALSE]
    ELSE IF U16(data, SlotLengthAt(slot_id)) = 0 THEN [data |-> data, ok |-> FALSE]
    ELSE [data |-> PutU16(PutU16(data, SlotLengthAt(slot_id), 0), SlotOffsetAt(slot_id), 0),
          ok |-> TRUE]

\* GetRecord: the bytes of the record, <<>> for nullptr with *out_len = 0
GetRecord(data, slot_id) ==
    IF slot_id >= U16(data, NumSlotsAt) THEN <<>>
    ELSE IF U16(data, SlotLengthAt(slot_id)) = 0 THEN <<>>
    ELSE BytesAt(data, U16(data, SlotOffsetAt(slot_id)), U16(data, SlotLengthAt(slot_id)))

UpdateRecord(data, slot_id, record) ==
    IF slot_id >= U16(data, NumSlotsAt) THEN [data |-> data, ok |-> FALSE]
    ELSE IF U16(data, SlotLengthAt(slot_id)) = 0 THEN [data |-> data, ok |-> FALSE]
    ELSE IF Len(record) <= U16(data, SlotLengthAt(slot_id))
    THEN [data |-> PutU16(PutBytes(data, U16(data, SlotOffsetAt(slot_id)), record),
                          SlotLengthAt(slot_id), Len(record)),
          ok |-> TRUE]
    ELSE [data |-> data, ok |-> FALSE]

\* ------------------------------------------------------------------------
\* Recovery manager
\* ------------------------------------------------------------------------

RECURSIVE AnalysisFrom(_, _, _, _)
\* the loop of AnalysisPhase from record i on
AnalysisFrom(records, i, active_txns, dirty_pages) ==
    IF i > Len(records) THEN [active_txns |-> active_txns, dirty_pages |-> dirty_pages]
    ELSE LET record == records[i]
         IN IF record.type = BEGIN
            THEN AnalysisFrom(records, i + 1, active_txns \cup {record.txn_id}, dirty_pages)
            ELSE IF record.type \in {COMMIT, ABORT}
            THEN AnalysisFrom(records, i + 1, active_txns \ {record.txn_id}, dirty_pages)
            ELSE IF record.type \in {INSERT, DELETE, UPDATE}
            THEN AnalysisFrom(records, i + 1, active_txns \cup {record.txn_id},
                     IF record.page_id # INVALID_PAGE_ID
                        /\ record.page_id \notin DOMAIN dirty_pages
                     THEN MapPut(dirty_pages, record.page_id, record.lsn)
                     ELSE dirty_pages)
            ELSE AnalysisFrom(records, i + 1, active_txns, dirty_pages)

AnalysisPhase(records) == AnalysisFrom(records, 1, {}, <<>>)

\* the page a redo or undo step leaves behind: fetched, changed to data,
\* unpinned with dirty = true
PutBack(f, page_id, data) ==
    UnpinPage([f.bpm EXCEPT !.pages_[f.frame].data_ = data], page_id, TRUE).bpm

RECURSIVE RedoFrom(_, _, _, _, _, _)
\* the loop of RedoPhase from record i on; outcome[k] tells what the loop did
\* with record k
RedoFrom(records, i, dirty_pages, b, d, outcome) ==
    IF i > Len(records) THEN [bpm |-> b, disk |-> d, outcome |-> outcome]
    ELSE LET record == records[i]
         IN IF record.type \notin {INSERT, DELETE, UPDATE}
            THEN RedoFrom(records, i + 1, dirty_pages, b, d, Append(outcome, "no_change"))
            ELSE IF record.page_id = INVALID_PAGE_ID
            THEN RedoFrom(records, i + 1, dirty_pages, b, d, Append(outcome, "no_page"))
            ELSE IF record.page_id \notin DOMAIN dirty_pages
            THEN RedoFrom(records, i + 1, dirty_pages, b, d, Append(outcome, "not_dirty"))
            ELSE IF record.lsn < dirty_pages[record.page_id]
            THEN RedoFrom(records, i + 1, dirty_pages, b, d, Append(outcome, "lsn_skip"))
            ELSE LET f == FetchPage(b, d, record.page_id)
                 IN IF f.frame = INVALID_FRAME_ID
                    THEN RedoFrom(records, i + 1, dirty_pages, b, d,
                                  Append(outcome, "no_frame"))
                    ELSE LET data == f.bpm.pages_[f.frame].data_
                             empty == record.type \in {INSERT, UPDATE}
                                      /\ record.after_image = <<>>
                             data2 ==
                                 IF empty THEN data
                                 ELSE IF record.type = INSERT
                                 THEN InsertRecord(data, record.after_image).data
                                 ELSE IF record.type = DELETE
                                 THEN DeleteRecord(data, record.slot_id).data
                                 ELSE UpdateRecord(data, record.slot_id,
                                                   record.after_image).data
                         IN RedoFrom(records, i + 1, dirty_pages,
                                     PutBack(f, record.page_id, data2), f.disk,
                                     Append(outcome, IF empty THEN "empty" ELSE "redone"))

RedoPhase(records, dirty_pages, b, d) == RedoFrom(records, 1, dirty_pages, b, d, <<>>)

RECURSIVE UndoFrom(_, _, _, _, _)
\* the loop of UndoPhase from record i down
UndoFrom(records, i, active_txns, b, d) ==
    IF i < 1 THEN [bpm |-> b, disk |-> d]
    ELSE LET record == records[i]
         IN IF record.txn_id \notin active_txns
            THEN UndoFrom(records, i - 1, active_txns, b, d)
            ELSE IF record.page_id = INVALID_PAGE_ID
            THEN UndoFrom(records, i - 1, active_txns, b, d)
            ELSE LET f == FetchPage(b, d, record.page_id)
                 IN IF f.frame = INVALID_FRAME_ID
                    THEN UndoFrom(records, i - 1, active_txns, b, d)
                    ELSE LET data == f.bpm.pages_[f.frame].data_
                             data2 ==
                                 IF record.type = INSERT
                                 THEN DeleteRecord(data, record.slot_id).data
                                 ELSE IF record.type = DELETE /\ record.before_image # <<>>
                                 THEN InsertRecord(data, record.before_image).data
                                 ELSE IF record.type = UPDATE /\ record.before_image # <<>>
                                 THEN UpdateRecord(data, record.slot_id,
                                                   record.before_image).data
                                 ELSE data
                         IN UndoFrom(records, i - 1, active_txns,
                                     PutBack(f, record.page_id, data2), f.disk)

UndoPhase(records, active_txns, b, d) ==
    IF active_txns = {} THEN [bpm |-> b, disk |-> d]
    ELSE UndoFrom(records, Len(records), active_txns, b, d)

\* Recover() on the pool b over the disk d, with the log file holding file
Recover(b, d, file) ==
    LET records == ReadAllRecords(file).records
    IN IF records = <<>>
       THEN [bpm |-> b, disk |-> d, outcome |-> <<>>, active_txns |-> {},
             dirty_pages |-> <<>>]
       ELSE LET a == AnalysisPhase(records)
                redo == RedoPhase(records, a.dirty_pages, b, d)
                undo == UndoPhase(records, a.active_txns, redo.bpm, redo.disk)
            IN [bpm |-> undo.bpm, disk |-> undo.disk, outcome |-> redo.outcome,
                active_txns |-> a.active_txns, dirty_pages |-> a.dirty_pages]

\* ------------------------------------------------------------------------
\* Transactions that change slotted pages and log what they do, a crash, and
\* the recovery at the next start
\* ------------------------------------------------------------------------

\* the number of pages the transactions allocate
MaxRecPages == 1

NoRecovery ==
    [phase |-> "running", outcome |-> <<>>, active_txns |-> {}, dirty_pages |-> <<>>]

\* the records of the log file
LogRecords == ReadAllRecords(log_file).records

\* the longest record a transaction writes
MaxRecLen == 2

\* the record content of the next insert or update, record_len bytes: no two
\* are the same
NextValue(record_len) == [i \in 1..record_len |-> Len(LogRecords) + 1]

\* another transaction that is still running has changed this record
TouchedByOther(txn_id, page_id, slot_id) ==
    LET records == LogRecords
    IN \E i \in 1..Len(records) :
          /\ records[i].txn_id # txn_id
          /\ client[records[i].txn_id] = "active"
          /\ records[i].type \in {INSERT, DELETE, UPDATE}
          /\ records[i].page_id = page_id
          /\ records[i].slot_id = slot_id

\* the content of the page as FetchPage on the pool b and the disk d hands
\* it out: the frame that holds the page, or else what the disk manager reads
PageIn(b, d, page_id) ==
    IF page_id \in DOMAIN b.page_table_
    THEN b.pages_[b.page_table_[page_id]].data_
    ELSE ReadPage(d.file, page_id)

PageOf(page_id) == PageIn(bpm, disk, page_id)

\* a transaction may act while the engine runs and it has not ended
CanAct(txn_id) ==
    /\ recovery.phase # "crashed"
    /\ client[txn_id] \in {"none", "active"}
    /\ Len(LogRecords) < MaxLogRecords

\* the log after the transaction appended the record and forced it to the file
Logged(input) ==
    LET r == AppendLogRecord(wal, log_file, input)
    IN Flush(r.wal, r.file)

\* a page is allocated and initialised as a slotted page
RecNewPage ==
    /\ recovery.phase # "crashed"
    /\ disk.next_page_id_ < MaxRecPages
    /\ LET f == NewPage(bpm, disk)
       IN /\ f.frame # INVALID_FRAME_ID
          /\ bpm' = PutBack(f, f.page_id, SlottedInit)
          /\ disk' = f.disk
    /\ recovery' = [recovery EXCEPT !.phase = "running"]
    /\ UNCHANGED <<wal, log_file, client>>

RecBegin(txn_id) ==
    /\ CanAct(txn_id)
    /\ client[txn_id] = "none"
    /\ LET l == Logged([NoRecord EXCEPT !.txn_id = txn_id, !.type = BEGIN])
       IN wal' = l.wal /\ log_file' = l.file
    /\ client' = [client EXCEPT ![txn_id] = "active"]
    /\ recovery' = [recovery EXCEPT !.phase = "running"]
    /\ UNCHANGED <<bpm, disk>>

RecCommit(txn_id) ==
    /\ CanAct(txn_id)
    /\ client[txn_id] = "active"
    /\ LET l == Logged([NoRecord EXCEPT !.txn_id = txn_id, !.type = COMMIT])
       IN wal' = l.wal /\ log_file' = l.file
    /\ client' = [client EXCEPT ![txn_id] = "done"]
    /\ recovery' = [recovery EXCEPT !.phase = "running"]
    /\ UNCHANGED <<bpm, disk>>

\* the transaction inserts a record and logs the slot and the after-image
RecInsert(txn_id, page_id, record_len) ==
    /\ page_id < disk.next_page_id_
    /\ CanAct(txn_id)
    /\ LET f == FetchPage(bpm, disk, page_id)
           ins == InsertRecord(f.bpm.pages_[f.frame].data_, NextValue(record_len))
           l == Logged([NoRecord EXCEPT !.txn_id = txn_id, !.type = INSERT,
                                        !.page_id = page_id, !.slot_id = ins.slot,
                                        !.after_image = NextValue(record_len)])
       IN /\ f.frame # INVALID_FRAME_ID
          /\ ins.slot # -1
          /\ ~TouchedByOther(txn_id, page_id, ins.slot)
          /\ bpm' = PutBack(f, page_id, ins.data)
          /\ disk' = f.disk
          /\ wal' = l.wal
          /\ log_file' = l.file
    /\ client' = [client EXCEPT ![txn_id] = "active"]
    /\ recovery' = [recovery EXCEPT !.phase = "running"]

\* the transaction deletes a live record and logs the before-image
RecDelete(txn_id, page_id, slot_id) ==
    /\ page_id < disk.next_page_id_
    /\ GetRecord(PageOf(page_id), slot_id) # <<>>
    /\ CanAct(txn_id)
    /\ ~TouchedByOther(txn_id, page_id, slot_id)
    /\ LET f == FetchPage(bpm, disk, page_id)
           before == GetRecord(f.bpm.pages_[f.frame].data_, slot_id)
           del == DeleteRecord(f.bpm.pages_[f.frame].data_, slot_id)
           l == Logged([NoRecord EXCEPT !.txn_id = txn_id, !.type = DELETE,
                                        !.page_id = page_id, !.slot_id = slot_id,
                                        !.before_image = before])
       IN /\ f.frame # INVALID_FRAME_ID
          /\ del.ok
          /\ bpm' = PutBack(f, page_id, del.data)
          /\ disk' = f.disk
          /\ wal' = l.wal
          /\ log_file' = l.file
    /\ client' = [client EXCEPT ![txn_id] = "active"]
    /\ recovery' = [recovery EXCEPT !.phase = "running"]

\* the transaction overwrites a live record in place, with a record no longer
\* than the one in the slot, and logs both images
RecUpdate(txn_id, page_id, slot_id, record_len) ==
    /\ page_id < disk.next_page_id_
    /\ GetRecord(PageOf(page_id), slot_id) # <<>>
    /\ CanAct(txn_id)
    /\ ~TouchedByOther(txn_id, page_id, slot_id)
    /\ LET f == FetchPage(bpm, disk, page_id)
           before == GetRecord(f.bpm.pages_[f.frame].data_, slot_id)
           upd == UpdateRecord(f.bpm.pages_[f.frame].data_, slot_id, NextValue(record_len))
           l == Logged([NoRecord EXCEPT !.txn_id = txn_id, !.type = UPDATE,
                                        !.page_id = page_id, !.slot_id = slot_id,
                                        !.before_image = before,
                                        !.after_image = NextValue(record_len)])
       IN /\ f.frame # INVALID_FRAME_ID
          /\ upd.ok
          /\ bpm' = PutBack(f, page_id, upd.data)
          /\ disk' = f.disk
          /\ wal' = l.wal
          /\ log_file' = l.file
    /\ client' = [client EXCEPT ![txn_id] = "active"]
    /\ recovery' = [recovery EXCEPT !.phase = "running"]

\* a page reaches the disk; its log records are in the log file already
RecFlushPage(page_id) ==
    /\ recovery.phase # "crashed"
    /\ page_id \in DOMAIN bpm.page_table_
    /\ bpm.pages_[bpm.page_table_[page_id]].is_dirty_
    /\ LET r == FlushPage(bpm, disk, page_id)
       IN bpm' = r.bpm /\ disk' = r.disk
    /\ UNCHANGED <<wal, log_file, recovery, client>>

\* the process dies and is started again: DiskManager, BufferPoolManager and
\* WAL are constructed over the files as they are; the transactions that
\* were running are over
RecCrash ==
    /\ recovery.phase = "running"
    /\ bpm' = NewBufferPool
    /\ disk' = [file |-> disk.file, next_page_id_ |-> Len(disk.file)]
    /\ wal' = NewWAL
    /\ client' = [t \in DOMAIN client |-> IF client[t] = "active" THEN "done" ELSE client[t]]
    /\ recovery' = [NoRecovery EXCEPT !.phase = "crashed"]
    /\ UNCHANGED log_file

\* RecoveryManager(&wal, &bpm).Recover() at the start
RecRecover ==
    /\ recovery.phase = "crashed"
    /\ LET r == Recover(bpm, disk, log_file)
       IN /\ bpm' = r.bpm
          /\ disk' = r.disk
          /\ recovery' = [phase |-> "recovered", outcome |-> r.outcome,
                          active_txns |-> r.active_txns, dirty_pages |-> r.dirty_pages]
    /\ UNCHANGED <<wal, log_file, client>>

\* ------------------------------------------------------------------------
\* Documents and their byte format (BsonSerializer)
\* ------------------------------------------------------------------------

\* A std::string is the sequence of its bytes.  A BsonDocument is the
\* sequence of its elements [key, kind, value] in the order of std::map, by
\* key and without a repeated key; the value is a sequence: the bytes of a
\* string, <<n>> for an int32 or int64, <<0>> or <<1>> for a boolean, <<>>
\* for null.

RECURSIVE StrLess(_, _)
\* std::string operator<: the bytes compare as unsigned char, a proper
\* prefix is smaller
StrLess(a, b) ==
    IF b = <<>> THEN FALSE
    ELSE IF a = <<>> THEN TRUE
    ELSE IF Head(a) # Head(b) THEN Head(a) < Head(b)
    ELSE StrLess(Tail(a), Tail(b))

StrLessEq(a, b) == a = b \/ StrLess(a, b)

\* AppendCString: the characters and a null terminator
CString(s) == s \o <<0>>

\* the doubles of the callers, <<n>> for the number n and <<>> for a NaN, and
\* the eight bytes of each in memory (IEEE 754 binary64, least significant
\* byte first)
DoubleValues == {<<>>, <<0>>, <<1>>, <<2>>, <<-1>>}
DoubleBytes(value) ==
    IF value = <<>> THEN <<0, 0, 0, 0, 0, 0, 248, 127>>
    ELSE IF value = <<0>> THEN <<0, 0, 0, 0, 0, 0, 0, 0>>
    ELSE IF value = <<1>> THEN <<0, 0, 0, 0, 0, 0, 240, 63>>
    ELSE IF value = <<2>> THEN <<0, 0, 0, 0, 0, 0, 0, 64>>
    ELSE <<0, 0, 0, 0, 0, 0, 240, 191>>

\* memcpy of eight bytes into a double; bytes of a double that is none of
\* the callers' are kept as they are
DoubleOf(bytes) ==
    IF \E value \in DoubleValues : DoubleBytes(value) = bytes
    THEN CHOOSE value \in DoubleValues : DoubleBytes(value) = bytes
    ELSE bytes

RECURSIVE BsonSerialize(_)
RECURSIVE ElementBytes(_)
\* the bytes Serialize appends for one element; an element holding null
\* matches no branch of the chain of holds_alternative tests
ElementBytes(e) ==
    IF e.kind = "double"
    THEN <<1>> \o CString(e.key) \o DoubleBytes(e.value)
    ELSE IF e.kind = "string"
    THEN <<2>> \o CString(e.key) \o LEBytes(Len(e.value) + 1, 4) \o CString(e.value)
    ELSE IF e.kind = "int32"
    THEN <<16>> \o CString(e.key) \o LEBytes(e.value[1], 4)
    ELSE IF e.kind = "int64"
    THEN <<18>> \o CString(e.key) \o LEBytes(e.value[1], 8)
    ELSE IF e.kind = "bool"
    THEN <<8>> \o CString(e.key) \o <<IF e.value[1] = 1 THEN 1 ELSE 0>>
    ELSE IF e.kind = "document"
    THEN <<3>> \o CString(e.key) \o BsonSerialize(e.value)
    ELSE <<>>

RECURSIVE ElementsBytes(_)
ElementsBytes(doc) ==
    IF doc = <<>> THEN <<>> ELSE ElementBytes(Head(doc)) \o ElementsBytes(Tail(doc))

\* BsonSerializer::Serialize: the total size, the elements, a zero byte
BsonSerialize(doc) ==
    LET body == ElementsBytes(doc) \o <<0>>
    IN LEBytes(4 + Len(body), 4) \o body

\* doc.Add(key, value): elements[key] = value
DocAdd(doc, e) ==
    LET before == SelectSeq(doc, LAMBDA x : StrLess(x.key, e.key))
        after == SelectSeq(doc, LAMBDA x : StrLess(e.key, x.key))
    IN before \o <<e>> \o after

RECURSIVE CStringLen(_, _)
\* strlen(data + offset); -1 when no zero byte follows inside the buffer
CStringLen(data, offset) ==
    IF offset >= Len(data) THEN -1
    ELSE IF data[offset + 1] = 0 THEN 0
    ELSE LET n == CStringLen(data, offset + 1)
         IN IF n = -1 THEN -1 ELSE n + 1

\* what Deserialize returns when it throws, and when it reads past the buffer
BsonThrown == [ok |-> FALSE, ub |-> FALSE, doc |-> <<>>]
BsonPastEnd == [ok |-> FALSE, ub |-> TRUE, doc |-> <<>>]

RECURSIVE BsonDeserialize(_)
RECURSIVE BsonElements(_, _, _, _)
RECURSIVE BsonSubDocument(_, _, _, _, _, _, _)
\* the loop of Deserialize from offset on
BsonElements(data, offset, doc_size, doc) ==
    IF ~(offset < doc_size - 1) THEN [ok |-> TRUE, ub |-> FALSE, doc |-> doc]
    ELSE IF offset >= Len(data) THEN BsonPastEnd
    ELSE LET type_byte == data[offset + 1]
             key_len == CStringLen(data, offset + 1)
             at == offset + 1 + key_len + 1
             key == BytesAt(data, offset + 1, key_len)
         IN IF type_byte = 0 THEN [ok |-> TRUE, ub |-> FALSE, doc |-> doc]
            ELSE IF key_len = -1 THEN BsonPastEnd
            ELSE IF type_byte = 16
            THEN IF at + 4 > Len(data) THEN BsonPastEnd
                 ELSE BsonElements(data, at + 4, doc_size,
                          DocAdd(doc, [key |-> key, kind |-> "int32",
                                       value |-> <<SignedLE(BytesAt(data, at, 4))>>]))
            ELSE IF type_byte = 18
            THEN IF at + 8 > Len(data) THEN BsonPastEnd
                 ELSE BsonElements(data, at + 8, doc_size,
                          DocAdd(doc, [key |-> key, kind |-> "int64",
                                       value |-> <<SignedLE(BytesAt(data, at, 8))>>]))
            ELSE IF type_byte = 8
            THEN IF at + 1 > Len(data) THEN BsonPastEnd
                 ELSE BsonElements(data, at + 1, doc_size,
                          DocAdd(doc, [key |-> key, kind |-> "bool",
                                       value |-> <<IF data[at + 1] = 1 THEN 1 ELSE 0>>]))
            ELSE IF type_byte = 2
            THEN IF at + 4 > Len(data) THEN BsonPastEnd
                 ELSE LET len == SignedLE(BytesAt(data, at, 4))
                      IN IF len < 1 \/ at + 4 + len > Len(data) THEN BsonPastEnd
                         ELSE BsonElements(data, at + 4 + len, doc_size,
                                  DocAdd(doc, [key |-> key, kind |-> "string",
                                               value |-> BytesAt(data, at + 4, len - 1)]))
            ELSE IF type_byte = 1
            THEN IF at + 8 > Len(data) THEN BsonPastEnd
                 ELSE BsonElements(data, at + 8, doc_size,
                          DocAdd(doc, [key |-> key, kind |-> "double",
                                       value |-> DoubleOf(BytesAt(data, at, 8))]))
            ELSE IF type_byte = 3
            THEN IF at + 4 > Len(data) THEN BsonPastEnd
                 ELSE LET sub_len == SignedLE(BytesAt(data, at, 4))
                      IN IF sub_len < 4 \/ at + sub_len > Len(data) THEN BsonPastEnd
                         ELSE BsonSubDocument(data, at, sub_len, doc_size, doc, key,
                                              BsonDeserialize(BytesAt(data, at, sub_len)))
            ELSE BsonThrown

\* case BsonType::DOCUMENT once the nested Deserialize has returned sub
BsonSubDocument(data, at, sub_len, doc_size, doc, key, sub) ==
    IF ~sub.ok THEN sub
    ELSE BsonElements(data, at + sub_len, doc_size,
             DocAdd(doc, [key |-> key, kind |-> "document", value |-> sub.doc]))

\* BsonSerializer::Deserialize(data, size) on a buffer of size bytes
BsonDeserialize(data) ==
    IF Len(data) < 4 THEN BsonPastEnd
    ELSE LET doc_size == SignedLE(BytesAt(data, 0, 4))
         IN IF doc_size < 0 \/ doc_size > Len(data) THEN BsonThrown
            \* (size_t)doc_size - 1 wraps when doc_size is 0: no offset inside
            \* the buffer reaches it
            ELSE BsonElements(data, 4, IF doc_size = 0 THEN Len(data) + 2 ELSE doc_size,
                              <<>>)

\* ------------------------------------------------------------------------
\* Free space map: one category byte per heap page, in the FSM page
\* ------------------------------------------------------------------------

GRANULARITY == 16

\* the pool with the content of a pinned frame replaced
SetData(b, frame, data) == [b EXCEPT !.pages_[frame].data_ = data]

BytesToCategory(free_bytes) ==
    LET cat == free_bytes \div GRANULARITY
    IN IF cat < 255 THEN cat ELSE 255

\* SlottedPage::GetFreeSpace
GetFreeSpace(data) ==
    IF U16(data, FreeEndAt) <= U16(data, FreeBeginAt) THEN 0
    ELSE U16(data, FreeEndAt) - U16(data, FreeBeginAt)

\* the first entry of the FSM page that qualifies, INVALID_PAGE_ID if none
FirstWithSpace(data, needed_cat) ==
    LET found == {i \in 0..(PageSize - 1) : data[i + 1] >= needed_cat /\ data[i + 1] > 0}
    IN IF found = {} THEN INVALID_PAGE_ID
       ELSE CHOOSE i \in found : \A j \in found : i <= j

\* FindPageWithSpace once the FSM page is fetched as f
FindPageWithSpaceIn(f, b, d, fsm_start_page_, needed_bytes) ==
    IF f.frame = INVALID_FRAME_ID
    THEN [bpm |-> b, disk |-> d, page_id |-> INVALID_PAGE_ID]
    ELSE [bpm |-> UnpinPage(f.bpm, fsm_start_page_, FALSE).bpm, disk |-> f.disk,
          page_id |-> FirstWithSpace(f.bpm.pages_[f.frame].data_,
                                     BytesToCategory(needed_bytes))]

\* FreeSpaceMap::FindPageWithSpace; entries_per_page_ is the page size
FindPageWithSpace(b, d, fsm_start_page_, needed_bytes) ==
    FindPageWithSpaceIn(FetchPage(b, d, fsm_start_page_), b, d, fsm_start_page_,
                        needed_bytes)

\* UpdateFreeSpace once the FSM page is fetched as f
UpdateFreeSpaceIn(f, b, d, fsm_page_id, offset, free_bytes) ==
    IF f.frame = INVALID_FRAME_ID THEN [bpm |-> b, disk |-> d]
    ELSE [bpm |-> UnpinPage(SetData(f.bpm, f.frame,
                               [f.bpm.pages_[f.frame].data_ EXCEPT
                                   ![offset + 1] = BytesToCategory(free_bytes)]),
                            fsm_page_id, TRUE).bpm,
          disk |-> f.disk]

\* FreeSpaceMap::UpdateFreeSpace (RegisterNewPage is the same call)
UpdateFreeSpace(b, d, fsm_start_page_, heap_page_id, free_bytes) ==
    UpdateFreeSpaceIn(FetchPage(b, d, fsm_start_page_ + (heap_page_id \div PageSize)),
                      b, d, fsm_start_page_ + (heap_page_id \div PageSize),
                      heap_page_id % PageSize, free_bytes)

\* ------------------------------------------------------------------------
\* Heap file: a HeapFile object is [fsm_page, first_page_id_, max_page_id_];
\* each operation maps the pool, the disk and the object to what they are
\* after the call, with err set when the call throws
\* ------------------------------------------------------------------------

NoRid == [page_id |-> INVALID_PAGE_ID, slot_id |-> 0]

\* HeapFile::HeapFile
NewHeapFile(fsm_page, first_page_id) ==
    [fsm_page |-> fsm_page, first_page_id_ |-> first_page_id, max_page_id_ |-> first_page_id]

\* AllocateNewPage once the page is registered with the FSM, leaving u
AllocateNewPageDone(u, h, new_page_id) ==
    [bpm |-> UnpinPage(u.bpm, new_page_id, TRUE).bpm, disk |-> u.disk,
     heap |-> IF new_page_id > h.max_page_id_
              THEN [h EXCEPT !.max_page_id_ = new_page_id] ELSE h,
     page_id |-> new_page_id, err |-> FALSE]

\* AllocateNewPage once NewPage has returned np
AllocateNewPageIn(np, b, d, h) ==
    IF np.frame = INVALID_FRAME_ID
    THEN [bpm |-> b, disk |-> d, heap |-> h, page_id |-> INVALID_PAGE_ID, err |-> TRUE]
    ELSE AllocateNewPageDone(
             UpdateFreeSpace(SetData(np.bpm, np.frame, SlottedInit), np.disk,
                             h.fsm_page, np.page_id, GetFreeSpace(SlottedInit)),
             h, np.page_id)

\* HeapFile::AllocateNewPage
HeapAllocateNewPage(b, d, h) == AllocateNewPageIn(NewPage(b, d), b, d, h)

\* what an operation of the heap file leaves behind when it throws
HeapThrown(b, d, h) == [bpm |-> b, disk |-> d, heap |-> h, rid |-> NoRid, err |-> TRUE]

\* InsertRecord from "Update FSM with remaining free space" on
HeapInsertDone(u, h, target_page, slot_id) ==
    [bpm |-> UnpinPage(u.bpm, target_page, TRUE).bpm, disk |-> u.disk, heap |-> h,
     rid |-> [page_id |-> target_page, slot_id |-> slot_id], err |-> FALSE]

\* the second attempt of InsertRecord once the slotted page has answered ins
HeapInsertAgainTried(ins, f, h, target_page) ==
    IF ins.slot = -1
    THEN HeapThrown(UnpinPage(f.bpm, target_page, FALSE).bpm, f.disk, h)
    ELSE HeapInsertDone(UpdateFreeSpace(SetData(f.bpm, f.frame, ins.data), f.disk,
                                        h.fsm_page, target_page, GetFreeSpace(ins.data)),
                        h, target_page, ins.slot)

\* the second attempt once the new page is fetched as f
HeapInsertAgainIn(f, b, d, h, target_page, record) ==
    IF f.frame = INVALID_FRAME_ID THEN HeapThrown(b, d, h)
    ELSE HeapInsertAgainTried(InsertRecord(f.bpm.pages_[f.frame].data_, record),
                              f, h, target_page)

\* the second attempt of InsertRecord, on the page AllocateNewPage returned
HeapInsertAgain(a, record) ==
    IF a.err THEN HeapThrown(a.bpm, a.disk, a.heap)
    ELSE HeapInsertAgainIn(FetchPage(a.bpm, a.disk, a.page_id), a.bpm, a.disk, a.heap,
                           a.page_id, record)

\* the first attempt once the slotted page has answered ins
HeapInsertTried(ins, f, h, target_page, record) ==
    IF ins.slot = -1
    THEN HeapInsertAgain(
             HeapAllocateNewPage(UnpinPage(f.bpm, target_page, FALSE).bpm, f.disk, h),
             record)
    ELSE HeapInsertDone(UpdateFreeSpace(SetData(f.bpm, f.frame, ins.data), f.disk,
                                        h.fsm_page, target_page, GetFreeSpace(ins.data)),
                        h, target_page, ins.slot)

\* the first attempt once the target page is fetched as f
HeapInsertIn(f, b, d, h, target_page, record) ==
    IF f.frame = INVALID_FRAME_ID THEN HeapThrown(b, d, h)
    ELSE HeapInsertTried(InsertRecord(f.bpm.pages_[f.frame].data_, record),
                         f, h, target_page, record)

\* HeapFile::InsertRecord from "Fetch the page" on
HeapInsertAt(b, d, h, target_page, record) ==
    HeapInsertIn(FetchPage(b, d, target_page), b, d, h, target_page, record)

\* InsertRecord when no page has space: on the page AllocateNewPage returned
HeapInsertNew(a, record) ==
    IF a.err THEN HeapThrown(a.bpm, a.disk, a.heap)
    ELSE HeapInsertAt(a.bpm, a.disk, a.heap, a.page_id, record)

\* InsertRecord once the FSM has answered fp
HeapInsertFound(fp, h, record) ==
    IF fp.page_id = INVALID_PAGE_ID
    THEN HeapInsertNew(HeapAllocateNewPage(fp.bpm, fp.disk, h), record)
    ELSE HeapInsertAt(fp.bpm, fp.disk, h, fp.page_id, record)

\* the bytes InsertRecord and UpdateRecord hand to the slotted page:
\* record_len is a uint16_t
RecordOf(data) == SubSeq(data, 1, Len(data) % 65536)

\* HeapFile::InsertRecord
HeapInsertRecord(b, d, h, doc) ==
    HeapInsertFound(
        FindPageWithSpace(b, d, h.fsm_page,
                          (Len(RecordOf(BsonSerialize(doc))) + SlotSize) % 65536),
        h, RecordOf(BsonSerialize(doc)))

\* DeleteRecord from the unpin on; u is the pool and the disk before it
HeapDeleteDone(u, rid, ok) ==
    [bpm |-> UnpinPage(u.bpm, rid.page_id, ok).bpm, disk |-> u.disk, ok |-> ok]

\* DeleteRecord once the slotted page has answered del
HeapDeleteTried(del, f, h, rid) ==
    IF del.ok
    THEN HeapDeleteDone(UpdateFreeSpace(SetData(f.bpm, f.frame, del.data), f.disk,
                                        h.fsm_page, rid.page_id, GetFreeSpace(del.data)),
                        rid, TRUE)
    ELSE HeapDeleteDone([bpm |-> f.bpm, disk |-> f.disk], rid, FALSE)

\* DeleteRecord once the page is fetched as f
HeapDeleteIn(f, b, d, h, rid) ==
    IF f.frame = INVALID_FRAME_ID THEN [bpm |-> b, disk |-> d, ok |-> FALSE]
    ELSE HeapDeleteTried(DeleteRecord(f.bpm.pages_[f.frame].data_, rid.slot_id), f, h, rid)

\* HeapFile::DeleteRecord
HeapDeleteRecord(b, d, h, rid) == HeapDeleteIn(FetchPage(b, d, rid.page_id), b, d, h, rid)

\* GetRecord once the record bytes data are deserialized as r; when
\* Deserialize throws the page stays pinned
HeapGetRead(r, data, f, rid) ==
    IF data = <<>>
    THEN [bpm |-> UnpinPage(f.bpm, rid.page_id, FALSE).bpm, disk |-> f.disk,
          doc |-> <<>>, err |-> TRUE]
    ELSE IF ~r.ok
    THEN [bpm |-> f.bpm, disk |-> f.disk, doc |-> <<>>, err |-> TRUE]
    ELSE [bpm |-> UnpinPage(f.bpm, rid.page_id, FALSE).bpm, disk |-> f.disk,
          doc |-> r.doc, err |-> FALSE]

\* GetRecord once the page is fetched as f
HeapGetIn(f, b, d, rid) ==
    IF f.frame = INVALID_FRAME_ID
    THEN [bpm |-> b, disk |-> d, doc |-> <<>>, err |-> TRUE]
    ELSE HeapGetRead(BsonDeserialize(GetRecord(f.bpm.pages_[f.frame].data_, rid.slot_id)),
                     GetRecord(f.bpm.pages_[f.frame].data_, rid.slot_id), f, rid)

\* HeapFile::GetRecord
HeapGetRecord(b, d, rid) == HeapGetIn(FetchPage(b, d, rid.page_id), b, d, rid)

\* UpdateRecord when the record did not fit: the insert after the delete del
HeapUpdateMoved(del, h, doc) == HeapInsertRecord(del.bpm, del.disk, h, doc)

\* UpdateRecord once the slotted page has answered upd
HeapUpdateTried(upd, f, h, rid, doc) ==
    IF upd.ok
    THEN [bpm |-> UnpinPage(SetData(f.bpm, f.frame, upd.data), rid.page_id, TRUE).bpm,
          disk |-> f.disk, heap |-> h, rid |-> rid, err |-> FALSE]
    ELSE HeapUpdateMoved(
             HeapDeleteRecord(UnpinPage(f.bpm, rid.page_id, FALSE).bpm, f.disk, h, rid),
             h, doc)

\* UpdateRecord once the page is fetched as f
HeapUpdateIn(f, b, d, h, rid, doc) ==
    IF f.frame = INVALID_FRAME_ID THEN HeapThrown(b, d, h)
    ELSE HeapUpdateTried(UpdateRecord(f.bpm.pages_[f.frame].data_, rid.slot_id,
                                      RecordOf(BsonSerialize(doc))),
                         f, h, rid, doc)

\* HeapFile::UpdateRecord
HeapUpdateRecord(b, d, h, rid, doc) ==
    HeapUpdateIn(FetchPage(b, d, rid.page_id), b, d, h, rid, doc)

\* every slot of the page, tombstones included
OccupiedSlots_WithTombstones(data) == [i \in 1..U16(data, NumSlotsAt) |-> i - 1]

\* the slots of the page Next returns a tuple for, in the order it meets them
OccupiedSlots(data) ==
    SelectSeq([i \in 1..U16(data, NumSlotsAt) |-> i - 1],
              LAMBDA s : U16(data, SlotLengthAt(s)) > 0)

\* Iterator::Iterator
NewIterator(start_page, max_page) ==
    [current_page_ |-> start_page, current_slot_ |-> 0, max_page_ |-> max_page]

\* Next returning false
NoNext(b, d, it, err) ==
    [bpm |-> b, disk |-> d, it |-> it, has |-> FALSE, rid |-> NoRid, doc |-> <<>>,
     err |-> err]

\* Next at an occupied slot once Deserialize has answered r; when it throws
\* the page stays pinned
NextFound(r, f, it, slot) ==
    IF ~r.ok THEN NoNext(f.bpm, f.disk, it, TRUE)
    ELSE [bpm |-> UnpinPage(f.bpm, it.current_page_, FALSE).bpm, disk |-> f.disk,
          it |-> [it EXCEPT !.current_slot_ = slot + 1], has |-> TRUE,
          rid |-> [page_id |-> it.current_page_, slot_id |-> slot],
          doc |-> r.doc, err |-> FALSE]

RECURSIVE IteratorNext(_, _, _)

\* Next on a page fetched as f; slots are its occupied slots from
\* current_slot_ on
NextOnPage(slots, f, it) ==
    IF slots = <<>>
    THEN IteratorNext(UnpinPage(f.bpm, it.current_page_, FALSE).bpm, f.disk,
                      [it EXCEPT !.current_page_ = @ + 1, !.current_slot_ = 0])
    ELSE NextFound(BsonDeserialize(GetRecord(f.bpm.pages_[f.frame].data_, Head(slots))),
                   f, it, Head(slots))

\* one round of the loop of Next over the pages once FetchPage has answered f
NextIn(f, b, d, it) ==
    IF f.frame = INVALID_FRAME_ID
    THEN IteratorNext(b, d, [it EXCEPT !.current_page_ = @ + 1, !.current_slot_ = 0])
    ELSE NextOnPage(SelectSeq(OccupiedSlots(f.bpm.pages_[f.frame].data_),
                              LAMBDA s : s >= it.current_slot_),
                    f, it)

\* HeapFile::Iterator::Next: has is what it returns, err that it throws
IteratorNext(b, d, it) ==
    IF ~(it.current_page_ <= it.max_page_) THEN NoNext(b, d, it, FALSE)
    ELSE NextIn(FetchPage(b, d, it.current_page_), b, d, it)

RECURSIVE HeapScanFrom(_, _)
\* the calls of Next until it returns false, the last of which answered n:
\* the tuples in the order they are returned, and the pool and the disk
\* afterwards
HeapScanFrom(n, tuples) ==
    IF ~n.has THEN [bpm |-> n.bpm, disk |-> n.disk, tuples |-> tuples, err |-> n.err]
    ELSE HeapScanFrom(IteratorNext(n.bpm, n.disk, n.it),
                      Append(tuples, [rid |-> n.rid, doc |-> n.doc]))

\* HeapFile::Begin and the scan to its end
HeapScan(b, d, h) ==
    HeapScanFrom(IteratorNext(b, d, NewIterator(h.first_page_id_, h.max_page_id_)), <<>>)

\* ------------------------------------------------------------------------
\* B+ tree: a BPlusTree object is [root_page_id_, max_keys_]; a node is a
\* page: header is_leaf (1 byte), num_keys (2), next_leaf (4), then the
\* entries.  Each operation maps the pool, the disk (and the object) to what
\* they are after the call, and what the call returns
\* ------------------------------------------------------------------------

\* the max_keys_per_node the trees are built with (50 in bptree.h)
MaxKeys == 2

BTREE_NODE_HEADER_SIZE == 1 + 2 + 4

INVALID_RECORD_ID == [page_id |-> INVALID_PAGE_ID, slot_id |-> 0]

\* BPlusTree::BPlusTree
NewBPlusTree(root_page_id) == [root_page_id_ |-> root_page_id, max_keys_ |-> MaxKeys]

ReadNodeHeader(page_data) ==
    [is_leaf |-> page_data[1],
     num_keys |-> U16(page_data, 1),
     next_leaf |-> SignedLE(BytesAt(page_data, 3, 4))]

\* the bytes WriteNodeHeader stores at the start of the page
NodeHeaderBytes(header) ==
    <<header.is_leaf>> \o LEBytes(header.num_keys, 2) \o LEBytes(header.next_leaf, 4)

\* the sequence with v inserted before its element at index pos (from 0)
InsertAt(s, pos, v) == SubSeq(s, 1, pos) \o <<v>> \o SubSeq(s, pos + 1, Len(s))

\* the sequence without its element at index pos (from 0)
EraseAt(s, pos) == SubSeq(s, 1, pos) \o SubSeq(s, pos + 2, Len(s))

LeafPrepend(key, rid, rest) == [keys |-> <<key>> \o rest.keys, rids |-> <<rid>> \o rest.rids]

RECURSIVE ReadLeafFrom(_, _, _)

\* one round of the loop of ReadLeafNode; key_len is what the length field holds
ReadLeafEntry(page_data, offset, key_len, n) ==
    LeafPrepend(BytesAt(page_data, offset + 2, key_len),
                [page_id |-> SignedLE(BytesAt(page_data, offset + 2 + key_len, 4)),
                 slot_id |-> U16(page_data, offset + 2 + key_len + 4)],
                ReadLeafFrom(page_data, offset + 2 + key_len + 4 + 2, n - 1))

\* the loop of ReadLeafNode with n entries left to read
ReadLeafFrom(page_data, offset, n) ==
    IF n = 0 THEN [keys |-> <<>>, rids |-> <<>>]
    ELSE ReadLeafEntry(page_data, offset, U16(page_data, offset), n)

ReadLeafNode(page_data) ==
    ReadLeafFrom(page_data, BTREE_NODE_HEADER_SIZE, ReadNodeHeader(page_data).num_keys)

RECURSIVE LeafEntriesBytes(_, _)
\* the bytes WriteLeafNode stores after the header
LeafEntriesBytes(keys, rids) ==
    IF keys = <<>> THEN <<>>
    ELSE LEBytes(Len(Head(keys)) % 65536, 2) \o Head(keys)
         \o LEBytes(Head(rids).page_id, 4) \o LEBytes(Head(rids).slot_id, 2)
         \o LeafEntriesBytes(Tail(keys), Tail(rids))

WriteLeafNode(page_data, keys, rids, next_leaf) ==
    PutBytes(page_data, 0,
             NodeHeaderBytes([is_leaf |-> 1, num_keys |-> Len(keys) % 65536,
                              next_leaf |-> next_leaf])
             \o LeafEntriesBytes(keys, rids))

InternalPrepend(key, child, rest) ==
    [keys |-> <<key>> \o rest.keys, children |-> <<child>> \o rest.children]

RECURSIVE ReadInternalFrom(_, _, _)

\* one round of the loop of ReadInternalNode
ReadInternalEntry(page_data, offset, key_len, n) ==
    InternalPrepend(BytesAt(page_data, offset + 2, key_len),
                    SignedLE(BytesAt(page_data, offset + 2 + key_len, 4)),
                    ReadInternalFrom(page_data, offset + 2 + key_len + 4, n - 1))

\* the loop of ReadInternalNode with n keys left to read
ReadInternalFrom(page_data, offset, n) ==
    IF n = 0 THEN [keys |-> <<>>, children |-> <<>>]
    ELSE ReadInternalEntry(page_data, offset, U16(page_data, offset), n)

\* ReadInternalNode once the loop has read rest
ReadInternalFirst(child, rest) == [keys |-> rest.keys, children |-> <<child>> \o rest.children]

ReadInternalNode(page_data) ==
    ReadInternalFirst(SignedLE(BytesAt(page_data, BTREE_NODE_HEADER_SIZE, 4)),
                      ReadInternalFrom(page_data, BTREE_NODE_HEADER_SIZE + 4,
                                       ReadNodeHeader(page_data).num_keys))

RECURSIVE InternalEntriesBytes(_, _)
\* the bytes WriteInternalNode stores after the first child; children are
\* the children after the first
InternalEntriesBytes(keys, children) ==
    IF keys = <<>> THEN <<>>
    ELSE LEBytes(Len(Head(keys)) % 65536, 2) \o Head(keys) \o LEBytes(Head(children), 4)
         \o InternalEntriesBytes(Tail(keys), Tail(children))

WriteInternalNode(page_data, keys, children) ==
    PutBytes(page_data, 0,
             NodeHeaderBytes([is_leaf |-> 0, num_keys |-> Len(keys) % 65536,
                              next_leaf |-> INVALID_PAGE_ID])
             \o LEBytes(Head(children), 4)
             \o InternalEntriesBytes(keys, Tail(children)))

RECURSIVE ChildIndex(_, _, _)
\* "while (idx < keys.size() && key >= keys[idx]) idx++" from idx on
ChildIndex(keys, key, idx) ==
    IF idx < Len(keys) /\ StrLessEq(keys[idx + 1], key)
    THEN ChildIndex(keys, key, idx + 1) ELSE idx

RECURSIVE FindLeafFrom(_, _, _, _)

\* FindLeaf below an internal node read as node
FindLeafBelow(node, b, d, key) ==
    FindLeafFrom(b, d, node.children[ChildIndex(node.keys, key, 0) + 1], key)

\* one round of the loop of FindLeaf once the page is fetched as f
FindLeafIn(f, b, d, current, key) ==
    IF f.frame = INVALID_FRAME_ID
    THEN [bpm |-> b, disk |-> d, page_id |-> INVALID_PAGE_ID]
    ELSE IF ReadNodeHeader(f.bpm.pages_[f.frame].data_).is_leaf # 0
    THEN [bpm |-> UnpinPage(f.bpm, current, FALSE).bpm, disk |-> f.disk,
          page_id |-> current]
    ELSE FindLeafBelow(ReadInternalNode(f.bpm.pages_[f.frame].data_),
                       UnpinPage(f.bpm, current, FALSE).bpm, f.disk, key)

\* the loop of FindLeaf from the node current on
FindLeafFrom(b, d, current, key) == FindLeafIn(FetchPage(b, d, current), b, d, current, key)

\* BPlusTree::FindLeaf
FindLeaf(b, d, t, key) == FindLeafFrom(b, d, t.root_page_id_, key)

\* the indexes (from 0) at which the vector holds the key
Matches(keys, key) == {i \in 0..(Len(keys) - 1) : keys[i + 1] = key}

\* the smallest element of a non-empty set of integers
Least(S) == CHOOSE i \in S : \A j \in S : i <= j

\* Search once the leaf is read as leaf
SearchRead(leaf, b, d, key) ==
    [bpm |-> b, disk |-> d,
     rid |-> IF Matches(leaf.keys, key) = {} THEN INVALID_RECORD_ID
             ELSE leaf.rids[Least(Matches(leaf.keys, key)) + 1]]

\* Search once the leaf page is fetched as f
SearchIn(f, b, d, leaf_page, key) ==
    IF f.frame = INVALID_FRAME_ID THEN [bpm |-> b, disk |-> d, rid |-> INVALID_RECORD_ID]
    ELSE SearchRead(ReadLeafNode(f.bpm.pages_[f.frame].data_),
                    UnpinPage(f.bpm, leaf_page, FALSE).bpm, f.disk, key)

\* Search once FindLeaf has answered l
SearchAt(l, key) ==
    IF l.page_id = INVALID_PAGE_ID
    THEN [bpm |-> l.bpm, disk |-> l.disk, rid |-> INVALID_RECORD_ID]
    ELSE SearchIn(FetchPage(l.bpm, l.disk, l.page_id), l.bpm, l.disk, l.page_id, key)

\* BPlusTree::Search
Search(b, d, t, key) == SearchAt(FindLeaf(b, d, t, key), key)

\* what InsertInternal leaves behind when it throws
InsertThrown(b, d) ==
    [bpm |-> b, disk |-> d, did_split |-> FALSE, split_key |-> <<>>,
     new_page_id |-> INVALID_PAGE_ID, err |-> TRUE]

\* InsertInternal returning {false, "", INVALID_PAGE_ID}
NotSplit(b, d) ==
    [bpm |-> b, disk |-> d, did_split |-> FALSE, split_key |-> <<>>,
     new_page_id |-> INVALID_PAGE_ID, err |-> FALSE]

\* InsertInternal returning {true, split_key, new_page_id}
DidSplit(b, d, split_key, new_page_id) ==
    [bpm |-> b, disk |-> d, did_split |-> TRUE, split_key |-> split_key,
     new_page_id |-> new_page_id, err |-> FALSE]

RECURSIVE LowerBound(_, _, _)
\* std::lower_bound on a vector that is sorted: the first index, from idx
\* on, whose key is not less than key
LowerBound(keys, key, idx) ==
    IF idx < Len(keys) /\ StrLess(keys[idx + 1], key)
    THEN LowerBound(keys, key, idx + 1) ELSE idx

RECURSIVE SkipEqual(_, _, _)
\* "while (it != keys.end() && *it == key) { ++it; ++pos; }"
SkipEqual(keys, key, pos) ==
    IF pos < Len(keys) /\ keys[pos + 1] = key THEN SkipEqual(keys, key, pos + 1) ELSE pos

\* the position a leaf insert puts the key at
LeafPos(keys, key) == SkipEqual(keys, key, LowerBound(keys, key, 0))

\* a leaf split that leaves the original leaf without a next leaf
LeafSplitDone_Unlinked(b, d, frame, node_page_id, left_keys, left_rids, split_key, new_page_id) ==
    DidSplit(UnpinPage(SetData(b, frame,
                               WriteLeafNode(ZeroPage, left_keys, left_rids,
                                             INVALID_PAGE_ID)),
                       node_page_id, TRUE).bpm,
             d, split_key, new_page_id)

\* the leaf split from the write of the original page on; b holds the new
\* leaf, unpinned
LeafSplitDone(b, d, frame, node_page_id, left_keys, left_rids, split_key, new_page_id) ==
    DidSplit(UnpinPage(SetData(b, frame,
                               WriteLeafNode(ZeroPage, left_keys, left_rids, new_page_id)),
                       node_page_id, TRUE).bpm,
             d, split_key, new_page_id)

\* the leaf split once NewPage has answered np: the link is
\* current -> new -> old next
LeafSplit(np, f, node_page_id, keys, rids, mid, next_leaf) ==
    IF np.frame = INVALID_FRAME_ID THEN InsertThrown(f.bpm, f.disk)
    ELSE LeafSplitDone(
             UnpinPage(SetData(np.bpm, np.frame,
                               WriteLeafNode(ZeroPage, SubSeq(keys, mid + 1, Len(keys)),
                                             SubSeq(rids, mid + 1, Len(rids)), next_leaf)),
                       np.page_id, TRUE).bpm,
             np.disk, f.frame, node_page_id,
             SubSeq(keys, 1, mid), SubSeq(rids, 1, mid), keys[mid + 1], np.page_id)

\* the leaf insert once the key is in the vectors
LeafInserted(keys, rids, f, max_keys, node_page_id, next_leaf) ==
    IF Len(keys) <= max_keys
    THEN NotSplit(UnpinPage(SetData(f.bpm, f.frame,
                                    WriteLeafNode(ZeroPage, keys, rids, next_leaf)),
                            node_page_id, TRUE).bpm,
                  f.disk)
    ELSE LeafSplit(NewPage(f.bpm, f.disk), f, node_page_id, keys, rids,
                   Len(keys) \div 2, next_leaf)

\* the leaf insert once the leaf is read as leaf
LeafInsert(leaf, f, max_keys, node_page_id, key, rid, next_leaf) ==
    LeafInserted(InsertAt(leaf.keys, LeafPos(leaf.keys, key), key),
                 InsertAt(leaf.rids, LeafPos(leaf.keys, key), rid),
                 f, max_keys, node_page_id, next_leaf)

\* the write of an internal node once its page is fetched again as p; the
\* code does not test p
InternalWritten(p, b, d, node_page_id, keys, children) ==
    IF p.frame = INVALID_FRAME_ID THEN [bpm |-> b, disk |-> d, err |-> TRUE]
    ELSE [bpm |-> UnpinPage(SetData(p.bpm, p.frame,
                                    WriteInternalNode(ZeroPage, keys, children)),
                            node_page_id, TRUE).bpm,
          disk |-> p.disk, err |-> FALSE]

WriteInternal(b, d, node_page_id, keys, children) ==
    InternalWritten(FetchPage(b, d, node_page_id), b, d, node_page_id, keys, children)

\* InsertInternal at an internal node that does not split, once written as w
InternalKept(w) == IF w.err THEN InsertThrown(w.bpm, w.disk) ELSE NotSplit(w.bpm, w.disk)

\* the internal split once the left half is written as w
InternalSplitDone(w, push_up_key, new_page_id) ==
    IF w.err THEN InsertThrown(w.bpm, w.disk)
    ELSE DidSplit(w.bpm, w.disk, push_up_key, new_page_id)

\* the internal split once NewPage has answered np
InternalSplit(np, b, d, node_page_id, keys, children, mid) ==
    IF np.frame = INVALID_FRAME_ID THEN InsertThrown(b, d)
    ELSE InternalSplitDone(
             WriteInternal(
                 UnpinPage(SetData(np.bpm, np.frame,
                                   WriteInternalNode(ZeroPage,
                                                     SubSeq(keys, mid + 2, Len(keys)),
                                                     SubSeq(children, mid + 2, Len(children)))),
                           np.page_id, TRUE).bpm,
                 np.disk, node_page_id, SubSeq(keys, 1, mid), SubSeq(children, 1, mid + 1)),
             keys[mid + 1], np.page_id)

\* the internal insert once the split key and the new child are in the vectors
InternalInserted(keys, children, b, d, max_keys, node_page_id) ==
    IF Len(keys) <= max_keys
    THEN InternalKept(WriteInternal(b, d, node_page_id, keys, children))
    ELSE InternalSplit(NewPage(b, d), b, d, node_page_id, keys, children, Len(keys) \div 2)

\* InsertInternal at an internal node once the child has answered child_result
InternalInsertBack(child_result, node, idx, max_keys, node_page_id) ==
    IF child_result.err THEN child_result
    ELSE IF ~child_result.did_split THEN NotSplit(child_result.bpm, child_result.disk)
    ELSE InternalInserted(InsertAt(node.keys, idx, child_result.split_key),
                          InsertAt(node.children, idx + 1, child_result.new_page_id),
                          child_result.bpm, child_result.disk, max_keys, node_page_id)

RECURSIVE InsertInternal(_, _, _, _, _, _)

\* InsertInternal at an internal node read as node: the recursion into the
\* child at index idx
InternalInsert(node, idx, b, d, max_keys, node_page_id, key, rid) ==
    InternalInsertBack(InsertInternal(b, d, max_keys, node.children[idx + 1], key, rid),
                       node, idx, max_keys, node_page_id)

\* InsertInternal at an internal node read as node
InternalDescend(node, b, d, max_keys, node_page_id, key, rid) ==
    InternalInsert(node, ChildIndex(node.keys, key, 0), b, d, max_keys, node_page_id,
                   key, rid)

\* InsertInternal once the page is fetched as f
InsertInternalIn(f, b, d, max_keys, node_page_id, key, rid) ==
    IF f.frame = INVALID_FRAME_ID THEN InsertThrown(b, d)
    ELSE IF ReadNodeHeader(f.bpm.pages_[f.frame].data_).is_leaf # 0
    THEN LeafInsert(ReadLeafNode(f.bpm.pages_[f.frame].data_), f, max_keys, node_page_id,
                    key, rid, ReadNodeHeader(f.bpm.pages_[f.frame].data_).next_leaf)
    ELSE InternalDescend(ReadInternalNode(f.bpm.pages_[f.frame].data_),
                         UnpinPage(f.bpm, node_page_id, FALSE).bpm, f.disk,
                         max_keys, node_page_id, key, rid)

\* BPlusTree::InsertInternal
InsertInternal(b, d, max_keys, node_page_id, key, rid) ==
    InsertInternalIn(FetchPage(b, d, node_page_id), b, d, max_keys, node_page_id, key, rid)

\* Insert once NewPage has answered np for the new root
InsertNewRoot(np, result, t) ==
    IF np.frame = INVALID_FRAME_ID
    THEN [bpm |-> result.bpm, disk |-> result.disk, tree |-> t, err |-> TRUE]
    ELSE [bpm |-> UnpinPage(SetData(np.bpm, np.frame,
                                    WriteInternalNode(ZeroPage, <<result.split_key>>,
                                                      <<t.root_page_id_, result.new_page_id>>)),
                            np.page_id, TRUE).bpm,
          disk |-> np.disk,
          tree |-> [t EXCEPT !.root_page_id_ = np.page_id],
          err |-> FALSE]

\* Insert once InsertInternal has answered result
Inserted(result, t) ==
    IF result.err \/ ~result.did_split
    THEN [bpm |-> result.bpm, disk |-> result.disk, tree |-> t, err |-> result.err]
    ELSE InsertNewRoot(NewPage(result.bpm, result.disk), result, t)

\* BPlusTree::Insert
Insert(b, d, t, key, rid) ==
    Inserted(InsertInternal(b, d, t.max_keys_, t.root_page_id_, key, rid), t)

\* Delete once the leaf is read as leaf
DeleteRead(leaf, f, leaf_page, key, next_leaf) ==
    IF Matches(leaf.keys, key) = {}
    THEN [bpm |-> UnpinPage(f.bpm, leaf_page, FALSE).bpm, disk |-> f.disk, found |-> FALSE]
    ELSE [bpm |-> UnpinPage(SetData(f.bpm, f.frame,
                                    WriteLeafNode(ZeroPage,
                                                  EraseAt(leaf.keys, Least(Matches(leaf.keys, key))),
                                                  EraseAt(leaf.rids, Least(Matches(leaf.keys, key))),
                                                  next_leaf)),
                            leaf_page, TRUE).bpm,
          disk |-> f.disk, found |-> TRUE]

\* Delete once the leaf page is fetched as f
DeleteIn(f, b, d, leaf_page, key) ==
    IF f.frame = INVALID_FRAME_ID THEN [bpm |-> b, disk |-> d, found |-> FALSE]
    ELSE DeleteRead(ReadLeafNode(f.bpm.pages_[f.frame].data_), f, leaf_page, key,
                    ReadNodeHeader(f.bpm.pages_[f.frame].data_).next_leaf)

\* Delete once FindLeaf has answered l
DeleteAt(l, key) ==
    IF l.page_id = INVALID_PAGE_ID THEN [bpm |-> l.bpm, disk |-> l.disk, found |-> FALSE]
    ELSE DeleteIn(FetchPage(l.bpm, l.disk, l.page_id), l.bpm, l.disk, l.page_id, key)

\* BPlusTree::Delete: the first match in the leaf FindLeaf names, no rebalancing
Delete(b, d, t, key) == DeleteAt(FindLeaf(b, d, t, key), key)

RECURSIVE ScanLeaf(_, _, _, _, _, _)
\* the loop of RangeScan over the keys of one leaf, from index i (from 0) on;
\* done says that a key past the range was met
ScanLeaf(keys, rids, i, lo_key, hi_key, results) ==
    IF ~(i < Len(keys)) THEN [results |-> results, done |-> FALSE]
    ELSE IF StrLess(hi_key, keys[i + 1])
    THEN [results |-> results, done |-> TRUE]
    ELSE ScanLeaf(keys, rids, i + 1, lo_key, hi_key,
                  IF StrLessEq(lo_key, keys[i + 1])
                  THEN Append(results, <<keys[i + 1], rids[i + 1]>>) ELSE results)

RECURSIVE RangeScanFrom(_, _, _, _, _, _)

\* RangeScan once the keys of a leaf are visited as s
RangeScanNext(s, b, d, next_leaf, lo_key, hi_key) ==
    IF s.done THEN [bpm |-> b, disk |-> d, results |-> s.results]
    ELSE RangeScanFrom(b, d, next_leaf, lo_key, hi_key, s.results)

\* RangeScan once the leaf page is fetched as f
RangeScanIn(f, b, d, leaf_page, lo_key, hi_key, results) ==
    IF f.frame = INVALID_FRAME_ID THEN [bpm |-> b, disk |-> d, results |-> results]
    ELSE RangeScanNext(ScanLeaf(ReadLeafNode(f.bpm.pages_[f.frame].data_).keys,
                                ReadLeafNode(f.bpm.pages_[f.frame].data_).rids,
                                0, lo_key, hi_key, results),
                       UnpinPage(f.bpm, leaf_page, FALSE).bpm, f.disk,
                       ReadNodeHeader(f.bpm.pages_[f.frame].data_).next_leaf,
                       lo_key, hi_key)

\* the loop of RangeScan over the leaf chain
RangeScanFrom(b, d, leaf_page, lo_key, hi_key, results) ==
    IF leaf_page = INVALID_PAGE_ID THEN [bpm |-> b, disk |-> d, results |-> results]
    ELSE RangeScanIn(FetchPage(b, d, leaf_page), b, d, leaf_page, lo_key, hi_key, results)

\* RangeScan once FindLeaf has answered l
RangeScanAt(l, lo_key, hi_key) ==
    RangeScanFrom(l.bpm, l.disk, l.page_id, lo_key, hi_key, <<>>)

\* BPlusTree::RangeScan
RangeScan(b, d, t, lo_key, hi_key) == RangeScanAt(FindLeaf(b, d, t, lo_key), lo_key, hi_key)

\* the empty leaf CreateIndex writes into the root page: is_leaf 1, no key,
\* no next leaf
EmptyLeaf == PutBytes([ZeroPage EXCEPT ![1] = 1], 3, LEBytes(INVALID_PAGE_ID, 4))

\* ------------------------------------------------------------------------
\* Catalog: collections_ maps a collection name to its CollectionInfo
\* [fsm_page, first_heap_page, heap_file, indexes]
\* ------------------------------------------------------------------------

\* what CreateCollection leaves behind when it throws
CreateThrown(b, d, collections) ==
    [bpm |-> b, disk |-> d, collections_ |-> collections, ok |-> FALSE, err |-> TRUE]

\* CreateCollection once the first heap page is registered, leaving u
CreateCollectionDone(u, collections, name, fsm_page_id, heap_page_id) ==
    [bpm |-> u.bpm, disk |-> u.disk,
     collections_ |-> MapPut(collections, name,
                             [fsm_page |-> fsm_page_id,
                              first_heap_page |-> heap_page_id,
                              heap_file |-> NewHeapFile(fsm_page_id, heap_page_id),
                              indexes |-> <<>>]),
     ok |-> TRUE, err |-> FALSE]

\* CreateCollection once NewPage has answered heap for the first heap page
CreateCollectionHeap(heap, b, d, collections, name, fsm_page_id) ==
    IF heap.frame = INVALID_FRAME_ID THEN CreateThrown(b, d, collections)
    ELSE CreateCollectionDone(
             UpdateFreeSpace(UnpinPage(SetData(heap.bpm, heap.frame, SlottedInit),
                                       heap.page_id, TRUE).bpm,
                             heap.disk, fsm_page_id, heap.page_id, PageSize - HeaderSize),
             collections, name, fsm_page_id, heap.page_id)

\* CreateCollection once the FSM page is zeroed and unpinned, leaving b
CreateCollectionFsmDone(b, d, collections, name, fsm_page_id) ==
    CreateCollectionHeap(NewPage(b, d), b, d, collections, name, fsm_page_id)

\* CreateCollection once NewPage has answered fsm for the FSM page
CreateCollectionFsm(fsm, b, d, collections, name) ==
    IF fsm.frame = INVALID_FRAME_ID THEN CreateThrown(b, d, collections)
    ELSE CreateCollectionFsmDone(
             UnpinPage(SetData(fsm.bpm, fsm.frame, ZeroPage), fsm.page_id, TRUE).bpm,
             fsm.disk, collections, name, fsm.page_id)

\* Catalog::CreateCollection; ok is what it returns, err that it throws
CreateCollection(b, d, collections, name) ==
    IF name \in DOMAIN collections
    THEN [bpm |-> b, disk |-> d, collections_ |-> collections, ok |-> FALSE, err |-> FALSE]
    ELSE CreateCollectionFsm(NewPage(b, d), b, d, collections, name)

RECURSIVE Digits(_)
\* the decimal digits of a natural number, as characters
Digits(n) == IF n < 10 THEN <<48 + n>> ELSE Digits(n \div 10) \o <<48 + (n % 10)>>

\* std::to_string of an int32_t
to_string(n) == IF n < 0 THEN <<45>> \o Digits(0 - n) ELSE Digits(n)

\* the elements of the document under the field name (at most one)
FieldOf(doc, field_name) == SelectSeq(doc, LAMBDA e : e.key = field_name)

\* the keys CreateIndex inserts for a document: the string of the field, or
\* the decimal form of its int32; none for any other field
IndexKeys(doc, field_name) ==
    IF FieldOf(doc, field_name) = <<>> THEN <<>>
    ELSE IF Head(FieldOf(doc, field_name)).kind = "string"
    THEN <<Head(FieldOf(doc, field_name)).value>>
    ELSE IF Head(FieldOf(doc, field_name)).kind = "int32"
    THEN <<to_string(Head(FieldOf(doc, field_name)).value[1])>>
    ELSE <<>>

\* one round of the loop of CreateIndex over the tuples: the insert of the
\* keys (at most one) of the tuple Next answered
IndexTuple(b, d, t, keys, rid) ==
    IF keys = <<>> THEN [bpm |-> b, disk |-> d, tree |-> t, err |-> FALSE]
    ELSE Insert(b, d, t, Head(keys), rid)

RECURSIVE BuildIndexFrom(_, _, _)

\* the loop of CreateIndex once the insert for a tuple has answered ins
BuildIndexNext(ins, it, field_name) ==
    IF ins.err THEN ins
    ELSE BuildIndexFrom(IteratorNext(ins.bpm, ins.disk, it), ins.tree, field_name)

\* the loop of CreateIndex over the tuples, the last call of Next having
\* answered n
BuildIndexFrom(n, t, field_name) ==
    IF ~n.has THEN [bpm |-> n.bpm, disk |-> n.disk, tree |-> t, err |-> n.err]
    ELSE BuildIndexNext(IndexTuple(n.bpm, n.disk, t, IndexKeys(n.doc, field_name), n.rid),
                        n.it, field_name)

\* CreateIndex once the tree is built as built; btree_root_page is the page
\* the root was allocated at
CreateIndexDone(built, collections, name, field_name, root_page_id) ==
    IF built.err
    THEN [bpm |-> built.bpm, disk |-> built.disk, collections_ |-> collections,
          ok |-> FALSE, err |-> TRUE]
    ELSE [bpm |-> built.bpm, disk |-> built.disk,
          collections_ |-> [collections EXCEPT ![name].indexes =
                               Append(@, [field_name |-> field_name,
                                          btree_root_page |-> root_page_id,
                                          btree |-> built.tree])],
          ok |-> TRUE, err |-> FALSE]

\* CreateIndex once the empty root is written and unpinned, leaving b
CreateIndexBuild(b, d, collections, name, field_name, root_page_id) ==
    CreateIndexDone(
        BuildIndexFrom(
            IteratorNext(b, d, NewIterator(collections[name].heap_file.first_page_id_,
                                           collections[name].heap_file.max_page_id_)),
            NewBPlusTree(root_page_id), field_name),
        collections, name, field_name, root_page_id)

\* CreateIndex once NewPage has answered np for the root page
CreateIndexRoot(np, b, d, collections, name, field_name) ==
    IF np.frame = INVALID_FRAME_ID THEN CreateThrown(b, d, collections)
    ELSE CreateIndexBuild(UnpinPage(SetData(np.bpm, np.frame, EmptyLeaf),
                                    np.page_id, TRUE).bpm,
                          np.disk, collections, name, field_name, np.page_id)

\* Catalog::CreateIndex; ok is what it returns, err that it throws
CreateIndex(b, d, collections, name, field_name) ==
    IF \/ name \notin DOMAIN collections
       \/ \E i \in 1..Len(collections[name].indexes) :
             collections[name].indexes[i].field_name = field_name
    THEN [bpm |-> b, disk |-> d, collections_ |-> collections, ok |-> FALSE, err |-> FALSE]
    ELSE CreateIndexRoot(NewPage(b, d), b, d, collections, name, field_name)

RECURSIVE SetToSeq(_)
\* the elements of a finite set in some order
SetToSeq(S) ==
    IF S = {} THEN <<>>
    ELSE LET x == CHOOSE y \in S : TRUE IN <<x>> \o SetToSeq(S \ {x})

RECURSIVE IndexesBytes(_)
\* what SaveCatalog writes for the indexes of a collection
IndexesBytes(indexes) ==
    IF indexes = <<>> THEN <<>>
    ELSE LET idx == Head(indexes)
         IN LEBytes(Len(idx.field_name), 4) \o idx.field_name
            \o LEBytes(idx.btree_root_page, 4) \o IndexesBytes(Tail(indexes))

RECURSIVE CollectionsBytes(_, _)
\* what SaveCatalog writes for the collections left to visit, in the order
\* names of the iteration over collections_
CollectionsBytes(collections, names) ==
    IF names = <<>> THEN <<>>
    ELSE LET name == Head(names)
             info == collections[name]
         IN LEBytes(Len(name), 4) \o name \o LEBytes(info.fsm_page, 4)
            \o LEBytes(info.first_heap_page, 4) \o LEBytes(Len(info.indexes), 4)
            \o IndexesBytes(info.indexes) \o CollectionsBytes(collections, Tail(names))

\* the content SaveCatalog gives page 0
CatalogBytes(collections) ==
    LEBytes(Cardinality(DOMAIN collections), 4)
    \o CollectionsBytes(collections, SetToSeq(DOMAIN collections))

\* the bytes at the start of a zeroed page
PadPage(bytes) == [i \in 1..PageSize |-> IF i <= Len(bytes) THEN bytes[i] ELSE 0]

\* SaveCatalog from FlushAllPages on
SaveCatalogFlush(fl) == [bpm |-> fl.bpm, disk |-> fl.disk, fits |-> TRUE]

\* SaveCatalog once page 0 is fetched as f
SaveCatalogIn(f, b, d, bytes) ==
    IF f.frame = INVALID_FRAME_ID THEN [bpm |-> b, disk |-> d, fits |-> TRUE]
    ELSE IF Len(bytes) > PageSize THEN [bpm |-> f.bpm, disk |-> f.disk, fits |-> FALSE]
    ELSE SaveCatalogFlush(
             FlushAllPages(UnpinPage(SetData(f.bpm, f.frame, PadPage(bytes)), 0, TRUE).bpm,
                           f.disk))

\* Catalog::SaveCatalog; fits is false when the metadata is longer than the
\* page buffer it is copied into.  When FetchPage(0) finds no frame NewPage
\* finds none either and the call returns.
SaveCatalog(b, d, collections) ==
    SaveCatalogIn(FetchPage(b, d, 0), b, d, CatalogBytes(collections))

RECURSIVE LoadIndexes(_, _, _, _, _)
\* the loop of LoadCatalog over the indexes of one collection, from index i
\* on; at is the offset after the length field, field_len what it holds
LoadIndex(data, at, field_len, i, num_indexes, indexes) ==
    IF field_len = 0 \/ field_len > 255 \/ at + field_len > PageSize
    THEN [offset |-> at, indexes |-> indexes, ub |-> FALSE]
    ELSE IF at + field_len + 4 > PageSize
    THEN [offset |-> at, indexes |-> indexes, ub |-> TRUE]
    ELSE LoadIndexes(data, at + field_len + 4, i + 1, num_indexes,
             Append(indexes,
                    [field_name |-> BytesAt(data, at, field_len),
                     btree_root_page |-> SignedLE(BytesAt(data, at + field_len, 4)),
                     btree |-> NewBPlusTree(SignedLE(BytesAt(data, at + field_len, 4)))]))

LoadIndexes(data, offset, i, num_indexes, indexes) ==
    IF ~(i < num_indexes) THEN [offset |-> offset, indexes |-> indexes, ub |-> FALSE]
    ELSE IF offset + 4 > PageSize THEN [offset |-> offset, indexes |-> indexes, ub |-> TRUE]
    ELSE LoadIndex(data, offset + 4, UnsignedLE(BytesAt(data, offset, 4)), i,
                   num_indexes, indexes)

RECURSIVE LoadCollections(_, _, _, _, _)

\* LoadCatalog once the indexes of a collection are read as idx
LoadCollectionDone(idx, data, c, num_collections, collections, name, fsm_page,
                   first_heap_page) ==
    IF idx.ub
    THEN [collections_ |-> collections, ub |-> TRUE]
    ELSE LoadCollections(data, idx.offset, c + 1, num_collections,
             MapPut(collections, name,
                    [fsm_page |-> fsm_page,
                     first_heap_page |-> first_heap_page,
                     heap_file |-> NewHeapFile(fsm_page, first_heap_page),
                     indexes |-> idx.indexes]))

\* one round of the loop over the collections; at is the offset after the
\* length field, name_len what it holds
LoadCollection(data, at, name_len, c, num_collections, collections) ==
    IF name_len = 0 \/ name_len > 255 \/ at + name_len > PageSize
    THEN [collections_ |-> collections, ub |-> FALSE]
    ELSE IF at + name_len + 12 > PageSize
    THEN [collections_ |-> collections, ub |-> TRUE]
    ELSE LoadCollectionDone(
             LoadIndexes(data, at + name_len + 12, 0,
                         UnsignedLE(BytesAt(data, at + name_len + 8, 4)), <<>>),
             data, c, num_collections, collections,
             BytesAt(data, at, name_len),
             SignedLE(BytesAt(data, at + name_len, 4)),
             SignedLE(BytesAt(data, at + name_len + 4, 4)))

\* the loop of LoadCatalog from collection c on
LoadCollections(data, offset, c, num_collections, collections) ==
    IF ~(c < num_collections) THEN [collections_ |-> collections, ub |-> FALSE]
    ELSE IF offset + 4 > PageSize THEN [collections_ |-> collections, ub |-> TRUE]
    ELSE LoadCollection(data, offset + 4, UnsignedLE(BytesAt(data, offset, 4)), c,
                        num_collections, collections)

\* LoadCatalog once the page is parsed as l
LoadCatalogDone(l, f) ==
    [bpm |-> UnpinPage(f.bpm, 0, FALSE).bpm, disk |-> f.disk,
     collections_ |-> l.collections_, ub |-> l.ub]

\* LoadCatalog once the number of collections is read
LoadCatalogRead(data, num_collections, f) ==
    LoadCatalogDone(IF num_collections = 0 \/ num_collections > 1000
                    THEN [collections_ |-> <<>>, ub |-> FALSE]
                    ELSE LoadCollections(data, 4, 0, num_collections, <<>>),
                    f)

\* LoadCatalog once page 0 is fetched as f
LoadCatalogIn(f, b, d) ==
    IF f.frame = INVALID_FRAME_ID
    THEN [bpm |-> b, disk |-> d, collections_ |-> <<>>, ub |-> FALSE]
    ELSE LoadCatalogRead(f.bpm.pages_[f.frame].data_,
                         UnsignedLE(BytesAt(f.bpm.pages_[f.frame].data_, 0, 4)), f)

\* Catalog::LoadCatalog into an empty catalog
LoadCatalog(b, d) == LoadCatalogIn(FetchPage(b, d, 0), b, d)

\* ------------------------------------------------------------------------
\* The engine as the shell runs it (CLI::CLI, CLI::~CLI) and the callers of
\* the heap file of a collection
\* ------------------------------------------------------------------------

\* the number of inserts, deletes and updates the callers issue
MaxHeapOps == 4
\* the largest slot id the callers name
MaxSlotId == 2

\* the collection names and the documents the callers use: the field "a"
\* holding null, true, the int32 1 or the string "x"
Names == {<<99>>}
FieldA == <<97>>
DocNull == <<[key |-> FieldA, kind |-> "null", value |-> <<>>]>>
DocBool == <<[key |-> FieldA, kind |-> "bool", value |-> <<1>>]>>
DocInt == <<[key |-> FieldA, kind |-> "int32", value |-> <<1>>]>>
DocStr == <<[key |-> FieldA, kind |-> "string", value |-> <<120>>]>>
Docs == {DocNull, DocBool, DocInt, DocStr}

\* a document whose serialization is 8 bytes longer than a uint16_t counts:
\* the field "a" holding a string of 65531 bytes
WideLen == 65536 + 8 - 13
DocWide == <<[key |-> FieldA, kind |-> "string", value |-> [i \in 1..WideLen |-> 120]]>>

\* loaded: the catalog of the running engine came from LoadCatalog
EngineOff == [running |-> FALSE, loaded |-> FALSE, collections_ |-> <<>>]
\* saved: the catalog as it was in memory at the last shutdown
NoneYet == [names |-> <<>>, ops |-> 0, saved |-> <<>>]
NoCall == [op |-> "none", missing |-> FALSE, failed |-> FALSE]

\* the record ids the callers name in a collection: on the pages of its heap
\* file, whatever the slot holds
RidsOf(name) ==
    LET h == engine.collections_[name].heap_file
    IN {[page_id |-> p, slot_id |-> s] : p \in h.first_page_id_..h.max_page_id_,
                                         s \in 0..MaxSlotId}

\* the slot of the record id does not exist or is a tombstone
Missing(rid) == GetRecord(PageOf(rid.page_id), rid.slot_id) = <<>>

\* the documents stored under the record ids of the collection, as the calls
\* so far define them
ExpectedOf(name) == IF name \in DOMAIN expected.names THEN expected.names[name] ELSE <<>>

\* the callers of the heap file act on a collection that has no index: the
\* pages of a tree lie between the first and the last page of a heap file
\* that grows after the tree
CanCall(name) ==
    /\ engine.running
    /\ name \in DOMAIN engine.collections_
    /\ engine.collections_[name].indexes = <<>>

\* CLI::CLI on a fresh database file once NewPage has answered np: page 0
\* is reserved for the catalog
EngineStartFresh(np) ==
    /\ bpm' = IF np.frame = INVALID_FRAME_ID THEN np.bpm
              ELSE UnpinPage(SetData(np.bpm, np.frame, ZeroPage), np.page_id, TRUE).bpm
    /\ disk' = np.disk
    /\ engine' = [running |-> TRUE, loaded |-> FALSE, collections_ |-> <<>>]

\* CLI::CLI on an existing database file once LoadCatalog has answered l
EngineStartLoaded(l) ==
    /\ ~l.ub
    /\ bpm' = l.bpm
    /\ disk' = l.disk
    /\ engine' = [running |-> TRUE, loaded |-> TRUE, collections_ |-> l.collections_]

\* CLI::CLI
EngineStart ==
    /\ ~engine.running
    /\ IF Len(disk.file) = 0 THEN EngineStartFresh(NewPage(bpm, disk))
       ELSE EngineStartLoaded(LoadCatalog(bpm, disk))
    /\ last' = [NoCall EXCEPT !.op = "start"]
    /\ UNCHANGED expected

EngineCreated(r) ==
    /\ bpm' = r.bpm
    /\ disk' = r.disk
    /\ engine' = [engine EXCEPT !.collections_ = r.collections_]
    /\ last' = [NoCall EXCEPT !.op = "create", !.failed = ~r.ok]

\* "create collection": Catalog::CreateCollection
EngineCreateCollection(name) ==
    /\ engine.running
    /\ EngineCreated(CreateCollection(bpm, disk, engine.collections_, name))
    /\ UNCHANGED expected

HeapInserted(r, name, doc) ==
    /\ bpm' = r.bpm
    /\ disk' = r.disk
    /\ engine' = [engine EXCEPT !.collections_[name].heap_file = r.heap]
    /\ expected' = [names |-> IF r.err THEN expected.names
                              ELSE MapPut(expected.names, name,
                                          MapPut(ExpectedOf(name), r.rid, doc)),
                    ops |-> expected.ops + 1,
                    saved |-> expected.saved]
    /\ last' = [NoCall EXCEPT !.op = "insert", !.failed = r.err]

HeapInsert(name, doc) ==
    /\ CanCall(name)
    /\ expected.ops < MaxHeapOps
    /\ HeapInserted(HeapInsertRecord(bpm, disk, engine.collections_[name].heap_file, doc),
                    name, doc)

HeapDeleted(r, name, rid) ==
    /\ bpm' = r.bpm
    /\ disk' = r.disk
    /\ expected' = [names |-> IF r.ok
                              THEN MapPut(expected.names, name,
                                          MapErase(ExpectedOf(name), rid))
                              ELSE expected.names,
                    ops |-> expected.ops + 1,
                    saved |-> expected.saved]
    /\ last' = [op |-> "delete", missing |-> Missing(rid), failed |-> ~r.ok]

HeapDelete(name, rid) ==
    /\ CanCall(name)
    /\ rid \in RidsOf(name)
    /\ expected.ops < MaxHeapOps
    /\ HeapDeleted(HeapDeleteRecord(bpm, disk, engine.collections_[name].heap_file, rid),
                   name, rid)
    /\ UNCHANGED engine

\* the record id the call returns is the one the document is stored under
\* from now on
HeapUpdated(r, name, rid, doc) ==
    /\ bpm' = r.bpm
    /\ disk' = r.disk
    /\ engine' = [engine EXCEPT !.collections_[name].heap_file = r.heap]
    /\ expected' = [names |-> IF r.err THEN expected.names
                              ELSE MapPut(expected.names, name,
                                          MapPut(MapErase(ExpectedOf(name), rid),
                                                 r.rid, doc)),
                    ops |-> expected.ops + 1,
                    saved |-> expected.saved]
    /\ last' = [op |-> "update", missing |-> Missing(rid),
                failed |-> r.err \/ r.rid = NoRid]

HeapUpdate(name, rid, doc) ==
    /\ CanCall(name)
    /\ rid \in RidsOf(name)
    /\ expected.ops < MaxHeapOps
    /\ HeapUpdated(HeapUpdateRecord(bpm, disk, engine.collections_[name].heap_file,
                                    rid, doc),
                   name, rid, doc)

HeapGot(r, rid) ==
    /\ bpm' = r.bpm
    /\ disk' = r.disk
    /\ last' = [op |-> "get", missing |-> Missing(rid), failed |-> r.err]

HeapGet(name, rid) ==
    /\ CanCall(name)
    /\ rid \in RidsOf(name)
    /\ HeapGot(HeapGetRecord(bpm, disk, rid), rid)
    /\ UNCHANGED <<engine, expected>>

HeapScanned(r) ==
    /\ bpm' = r.bpm
    /\ disk' = r.disk
    /\ last' = [NoCall EXCEPT !.op = "scan", !.failed = r.err]

\* a sequential scan to its end
HeapSeqScan(name) ==
    /\ CanCall(name)
    /\ HeapScanned(HeapScan(bpm, disk, engine.collections_[name].heap_file))
    /\ UNCHANGED <<engine, expected>>

\* the sizes the callers of the free space map ask for: up to one byte more
\* than an empty page holds
FsmNeeded == 0..(PageSize - HeaderSize + 1)

FsmFound(r, needed_bytes) ==
    /\ bpm' = r.bpm
    /\ disk' = r.disk
    /\ last' = [op |-> "find", missing |-> FALSE, failed |-> FALSE,
                needed |-> needed_bytes, page_id |-> r.page_id]

\* a call of FindPageWithSpace on the free space map of a collection
FsmFind(name, needed_bytes) ==
    /\ CanCall(name)
    /\ FsmFound(FindPageWithSpace(bpm, disk, engine.collections_[name].fsm_page,
                                  needed_bytes), needed_bytes)
    /\ UNCHANGED <<engine, expected>>

\* "create index": Catalog::CreateIndex
EngineCreateIndex(name, field_name) ==
    /\ engine.running
    /\ EngineCreated(CreateIndex(bpm, disk, engine.collections_, name, field_name))
    /\ UNCHANGED expected

\* CLI::~CLI from the second FlushAllPages on, and the destructors of the
\* pool and the disk manager: the next process finds the file as it is
EngineStopped(fl) ==
    /\ bpm' = NewBufferPool
    /\ disk' = [file |-> fl.disk.file, next_page_id_ |-> Len(fl.disk.file)]
    /\ engine' = EngineOff
    /\ last' = [NoCall EXCEPT !.op = "shutdown"]

EngineSaved(s) ==
    /\ s.fits
    /\ EngineStopped(FlushAllPages(s.bpm, s.disk))

\* CLI::~CLI: SaveCatalog, FlushAllPages, and the process ends
EngineShutdown ==
    /\ engine.running
    /\ EngineSaved(SaveCatalog(bpm, disk, engine.collections_))
    /\ expected' = [expected EXCEPT !.saved = engine.collections_]

\* ------------------------------------------------------------------------
\* Callers of a B+ tree
\* ------------------------------------------------------------------------

\* the number of inserts and deletes the callers issue
MaxTreeOps == 6

\* the keys the callers use: "1" and "2"
TreeKeys == {<<49>>, <<50>>}

NoTree == [root_page_id_ |-> INVALID_PAGE_ID, max_keys_ |-> 0]
NoEntries == [pairs |-> <<>>, deletes |-> 0]

\* the tree is made as CreateIndex makes one: a new page holding an empty
\* leaf is its root
TreeCreated(np) ==
    /\ np.frame # INVALID_FRAME_ID
    /\ bpm' = UnpinPage(SetData(np.bpm, np.frame, EmptyLeaf), np.page_id, TRUE).bpm
    /\ disk' = np.disk
    /\ tree' = NewBPlusTree(np.page_id)

TreeCreate ==
    /\ tree = NoTree
    /\ TreeCreated(NewPage(bpm, disk))
    /\ UNCHANGED entries

TreeInserted(r, key, rid) ==
    /\ ~r.err
    /\ bpm' = r.bpm
    /\ disk' = r.disk
    /\ tree' = r.tree
    /\ entries' = [entries EXCEPT !.pairs = Append(@, <<key, rid>>)]

\* an insert of the key under a record id no earlier insert used
TreeInsert(key) ==
    /\ tree # NoTree
    /\ Len(entries.pairs) + entries.deletes < MaxTreeOps
    /\ TreeInserted(Insert(bpm, disk, tree, key,
                           [page_id |-> Len(entries.pairs), slot_id |-> 0]),
                    key, [page_id |-> Len(entries.pairs), slot_id |-> 0])

TreeDeleted(r) ==
    /\ bpm' = r.bpm
    /\ disk' = r.disk
    /\ entries' = [entries EXCEPT !.deletes = @ + 1]

TreeDelete(key) ==
    /\ tree # NoTree
    /\ Len(entries.pairs) + entries.deletes < MaxTreeOps
    /\ TreeDeleted(Delete(bpm, disk, tree, key))
    /\ UNCHANGED tree

TreeSearched(r) ==
    /\ bpm' = r.bpm
    /\ disk' = r.disk

TreeSearch(key) ==
    /\ tree # NoTree
    /\ TreeSearched(Search(bpm, disk, tree, key))
    /\ UNCHANGED <<tree, entries>>

TreeRangeScan(lo_key, hi_key) ==
    /\ tree # NoTree
    /\ TreeSearched(RangeScan(bpm, disk, tree, lo_key, hi_key))
    /\ UNCHANGED <<tree, entries>>

\* ------------------------------------------------------------------------
\* Callers of a slotted page
\* ------------------------------------------------------------------------

MaxPageCalls == 5
MaxPageRecLen == 3

\* the least record_len for which record_len + sizeof(SlotEntry) does not fit
\* the uint16_t space_needed of InsertRecord
WrapLen == 65536 - SlotSize

\* two records of this length and their slots fill a page
HalfLen == ((PageSize - HeaderSize) \div 2) - SlotSize

\* the records the callers pass: record_len is a uint16_t
PageRecLens == (0..MaxPageRecLen) \cup {HalfLen, WrapLen}
PageRecords == {[i \in 1..n |-> 7] : n \in PageRecLens}
\* a page of PageSize bytes has room for fewer slots than this
PageSlotIds == 0..((PageSize - HeaderSize) \div SlotSize)

\* the buffer after Init, no call made on it
NewSlotted ==
    [data |-> SlottedInit, calls |-> 0, last |-> [op |-> "init", len |-> 0, ok |-> TRUE]]
\* the process died in a call
Died == [data |-> <<>>, calls |-> 0, last |-> [op |-> "died", len |-> 0, ok |-> FALSE]]

\* the buffer after a call, and what the call was: for an insert and an update
\* len is record_len, for a delete the length of the record the slot held
Called(data, op, len, ok) ==
    [data |-> data, calls |-> slotted.calls + 1, last |-> [op |-> op, len |-> len, ok |-> ok]]

\* the memcpy of InsertRecord writes past the end of the page buffer
InsertOverruns(inserted, record) ==
    /\ inserted.slot # -1
    /\ U16(inserted.data, FreeEndAt) + Len(record) > Len(inserted.data)

\* Init on the buffer, in this process or in the next one
PageInit ==
    /\ slotted # NewSlotted
    /\ slotted' = NewSlotted

\* InsertRecord; a memcpy past the end of the buffer is undefined: the process
\* dies, or the call returns with the bytes of the buffer as the code left them
PageInserted(inserted, record) ==
    \/ slotted' = Called(inserted.data, "insert", Len(record), inserted.slot # -1)
    \/ /\ InsertOverruns(inserted, record)
       /\ slotted' = Died

PageInsert(record) ==
    /\ slotted.data # <<>>
    /\ slotted.calls < MaxPageCalls
    /\ PageInserted(InsertRecord(slotted.data, record), record)

PageDeleted(deleted, slot_id) ==
    slotted' = Called(deleted.data, "delete",
                      IF deleted.ok THEN U16(slotted.data, SlotLengthAt(slot_id)) ELSE 0,
                      deleted.ok)

PageDelete(slot_id) ==
    /\ slotted.data # <<>>
    /\ slotted.calls < MaxPageCalls
    /\ PageDeleted(DeleteRecord(slotted.data, slot_id), slot_id)

PageUpdated(updated, record) ==
    slotted' = Called(updated.data, "update", Len(record), updated.ok)

PageUpdate(slot_id, record) ==
    /\ slotted.data # <<>>
    /\ slotted.calls < MaxPageCalls
    /\ PageUpdated(UpdateRecord(slotted.data, slot_id, record), record)

\* ------------------------------------------------------------------------
\* Specifications
\* ------------------------------------------------------------------------

\* ------------------------------------------------------------------------
\* Executors: Predicate and FilterExecutor
\* ------------------------------------------------------------------------

\* A BsonValue is [kind, value] with the value as in an element of a
\* document; a double is <<n>> for the number n and <<>> for a NaN, a nested
\* document is the document.  A Predicate is [field_name, op, value].
CompareOps == {"EQ", "NE", "LT", "LE", "GT", "GE"}

\* the switch over op with the operators of an integer type
CompareInt(op, a, b) ==
    IF op = "EQ" THEN a = b
    ELSE IF op = "NE" THEN a # b
    ELSE IF op = "LT" THEN a < b
    ELSE IF op = "LE" THEN a <= b
    ELSE IF op = "GT" THEN a > b
    ELSE a >= b

\* the switch over op with the operators of std::string
CompareString(op, a, b) ==
    IF op = "EQ" THEN a = b
    ELSE IF op = "NE" THEN a # b
    ELSE IF op = "LT" THEN StrLess(a, b)
    ELSE IF op = "LE" THEN ~StrLess(b, a)
    ELSE IF op = "GT" THEN StrLess(b, a)
    ELSE ~StrLess(a, b)

\* the switch over op with the operators of double: every comparison with a
\* NaN is false, != is true
CompareDouble(op, a, b) ==
    IF a = <<>> \/ b = <<>> THEN op = "NE" ELSE CompareInt(op, a[1], b[1])

\* Predicate::Evaluate(doc)
Evaluate(pred, doc) ==
    LET it == {i \in 1..Len(doc) : doc[i].key = pred.field_name}
    IN IF it = {} THEN FALSE
       ELSE LET doc_val == doc[CHOOSE i \in it : TRUE]
                value == pred.value
            IN IF value.kind = "string" /\ doc_val.kind = "string"
               THEN CompareString(pred.op, doc_val.value, value.value)
               ELSE IF value.kind = "int32" /\ doc_val.kind = "int32"
               THEN CompareInt(pred.op, doc_val.value[1], value.value[1])
               ELSE IF value.kind = "int64" /\ doc_val.kind = "int64"
               THEN CompareInt(pred.op, doc_val.value[1], value.value[1])
               ELSE IF value.kind = "double" /\ doc_val.kind = "double"
               THEN CompareDouble(pred.op, doc_val.value, value.value)
               ELSE IF value.kind = "bool" /\ doc_val.kind = "bool"
               THEN IF pred.op = "EQ" THEN doc_val.value = value.value
                    ELSE IF pred.op = "NE" THEN doc_val.value # value.value
                    ELSE FALSE
               ELSE FALSE

\* the loop over predicates_ in FilterExecutor::Next
Pass(predicates, doc) == \A i \in 1..Len(predicates) : Evaluate(predicates[i], doc)

RECURSIVE NextPassing(_, _)
\* FilterExecutor::Next over a child that still has the tuples child to
\* return: whether a tuple is returned, the tuple, what is left of the child
NextPassing(child, predicates) ==
    IF child = <<>> THEN [found |-> FALSE, tuple |-> <<>>, rest |-> <<>>]
    ELSE IF Pass(predicates, Head(child).doc)
    THEN [found |-> TRUE, tuple |-> Head(child), rest |-> Tail(child)]
    ELSE NextPassing(Tail(child), predicates)

NoFilter ==
    [open |-> FALSE, done |-> FALSE, child_ |-> <<>>, predicates_ |-> <<>>,
     input |-> <<>>, returned |-> <<>>]

\* the values of the callers: every kind, equal and different values, a
\* negative integer, a NaN, a string that is a prefix of another
FilterValues ==
    {[kind |-> "null", value |-> <<>>],
     [kind |-> "bool", value |-> <<0>>], [kind |-> "bool", value |-> <<1>>],
     [kind |-> "int32", value |-> <<-1>>], [kind |-> "int32", value |-> <<1>>],
     [kind |-> "int64", value |-> <<1>>],
     [kind |-> "double", value |-> <<1>>], [kind |-> "double", value |-> <<>>],
     [kind |-> "string", value |-> <<120>>], [kind |-> "string", value |-> <<120, 121>>],
     [kind |-> "document", value |-> <<>>]}

FieldB == <<98>>

\* the documents of the child: the field a with each value, and a document
\* without the field
FilterDocs ==
    {<<[key |-> FieldA, kind |-> v.kind, value |-> v.value]>> : v \in FilterValues}
        \cup {<<[key |-> FieldB, kind |-> "int32", value |-> <<1>>]>>}

\* the longest child
MaxChildLen == 2

\* the tuples a child returns: documents under the record ids of their
\* places
FilterChildren ==
    UNION {{[i \in 1..n |-> [rid |-> [page_id |-> 0, slot_id |-> i - 1], doc |-> d[i]]] :
               d \in [1..n -> FilterDocs]} : n \in 0..MaxChildLen}

\* the predicate lists of the callers: none, each single predicate on the
\* field a, and pairs of a few of them
FilterPredicates == [field_name : {FieldA}, op : CompareOps, value : FilterValues]
PairedPredicates ==
    {p \in FilterPredicates :
        /\ p.op \in {"NE", "GE"}
        /\ p.value \in {[kind |-> "int32", value |-> <<1>>],
                        [kind |-> "string", value |-> <<120>>]}}
FilterPredicateLists ==
    {<<>>} \cup {<<p>> : p \in FilterPredicates}
           \cup {<<p, q>> : p \in PairedPredicates, q \in PairedPredicates}

\* FilterExecutor(child, predicates) and Init()
FilterInit(child, predicates) ==
    /\ filter = NoFilter
    /\ filter' = [open |-> TRUE, done |-> FALSE, child_ |-> child,
                  predicates_ |-> predicates, input |-> child, returned |-> <<>>]
    /\ UNCHANGED codec

\* FilterExecutor::Next
FilterNext ==
    /\ filter.open
    /\ ~filter.done
    /\ LET r == NextPassing(filter.child_, filter.predicates_)
       IN filter' = [filter EXCEPT !.child_ = r.rest,
                                   !.done = ~r.found,
                                   !.returned = IF r.found THEN Append(@, r.tuple) ELSE @]
    /\ UNCHANGED codec

\* FilterExecutor::Close, and the executor goes out of scope
FilterClose ==
    /\ filter.open
    /\ filter' = NoFilter
    /\ UNCHANGED codec

NoCodec == [doc |-> <<>>, bytes |-> <<>>, back |-> BsonThrown, state |-> "none"]

\* ------------------------------------------------------------------------
\* The callers of BsonSerializer
\* ------------------------------------------------------------------------

\* the values of the callers, by number: every kind of BsonValue, with a
\* NaN, negative integers, the empty string, and nested documents that are
\* empty, hold an int32 and hold a null
CodecValues ==
    <<[kind |-> "double", value |-> <<>>], [kind |-> "double", value |-> <<0>>],
      [kind |-> "double", value |-> <<1>>], [kind |-> "double", value |-> <<2>>],
      [kind |-> "double", value |-> <<-1>>],
      [kind |-> "string", value |-> <<>>], [kind |-> "string", value |-> <<120>>],
      [kind |-> "document", value |-> <<>>],
      [kind |-> "document", value |-> <<[key |-> <<97>>, kind |-> "int32", value |-> <<1>>]>>],
      [kind |-> "document", value |-> <<[key |-> <<97>>, kind |-> "null", value |-> <<>>]>>],
      [kind |-> "bool", value |-> <<0>>], [kind |-> "bool", value |-> <<1>>],
      [kind |-> "int32", value |-> <<-1>>], [kind |-> "int32", value |-> <<1>>],
      [kind |-> "int64", value |-> <<-1>>], [kind |-> "int64", value |-> <<1>>],
      [kind |-> "null", value |-> <<>>]>>

\* the element with the key and the value of number i, none for 0
CodecField(key, i) ==
    IF i = 0 THEN <<>>
    ELSE <<[key |-> key, kind |-> CodecValues[i].kind, value |-> CodecValues[i].value]>>

\* the documents of the callers: the fields a and b, each with one of the
\* values or missing
CodecDoc(i, j) == CodecField(FieldA, i) \o CodecField(FieldB, j)

\* BsonSerializer::Serialize(doc)
CodecSerialize(doc) ==
    /\ codec.state = "none"
    /\ codec' = [doc |-> doc, bytes |-> BsonSerialize(doc), back |-> BsonThrown,
                 state |-> "serialized"]
    /\ UNCHANGED filter

\* BsonSerializer::Deserialize on the bytes Serialize returned
CodecDeserialize ==
    /\ codec.state = "serialized"
    /\ codec' = [codec EXCEPT !.back = BsonDeserialize(codec.bytes),
                              !.state = "deserialized"]
    /\ UNCHANGED filter

\* the caller is done with the document
CodecDone ==
    /\ codec.state = "deserialized"
    /\ codec' = NoCodec
    /\ UNCHANGED filter

\* ------------------------------------------------------------------------
\* Lock manager: the threads that wait on the condition variable of a queue
\* ------------------------------------------------------------------------

\* the lock calls the threads issue in all
MaxRequests == 5

NoneWoken == [notified |-> {}, served |-> {}, requests |-> 0]

\* variant of Notified: UnlockAll wakes nobody
Notified_Nobody(t) == {}

\* queue.cv.notify_all() in the loop of UnlockAll(t): the threads that wait
\* on the queue of a key of the txn
Notified(t) ==
    IF t \notin DOMAIN txn_locks_ THEN {}
    ELSE {u \in DOMAIN pc : pc[u] # "idle" /\ wkey[u] \in txn_locks_[t] \cap DOMAIN lock_table_}

\* a thread calls LockShared, LockExclusive or LockUpgrade
FairLockShared(t, rid) ==
    /\ cv.requests < MaxRequests
    /\ LockShared(t, rid)
    /\ cv' = [cv EXCEPT !.requests = @ + 1]

FairLockExclusive(t, rid) ==
    /\ cv.requests < MaxRequests
    /\ LockExclusive(t, rid)
    /\ cv' = [cv EXCEPT !.requests = @ + 1]

FairLockUpgrade(t, rid) ==
    /\ cv.requests < MaxRequests
    /\ LockUpgrade(t, rid)
    /\ cv' = [cv EXCEPT !.requests = @ + 1]

\* UnlockAll with its notify_all
FairUnlockAll(t) ==
    /\ UnlockAll(t)
    /\ cv' = [cv EXCEPT !.notified = @ \cup Notified(t)]

\* the condition of the loop the blocked call of the thread waits in
MayReturn(t) ==
    \/ pc[t] = "wait_shared" /\ HasPending(t) /\ CanGrantLock(lock_table_[wkey[t]], "SHARED")
    \/ pc[t] = "wait_exclusive" /\ HasPending(t) /\ NoOtherGranted(lock_table_[wkey[t]], t)
    \/ /\ pc[t] = "wait_upgrade"
       /\ HoldsGranted(QueueOf(lock_table_, wkey[t]), t)
       /\ NoOtherGranted(QueueOf(lock_table_, wkey[t]), t)

\* the blocked call runs its loop once: it returns with the lock or waits on
WakeAny(t) ==
    IF MayReturn(t)
    THEN /\ (WakeShared(t) \/ WakeExclusive(t) \/ WakeUpgrade(t))
         /\ cv' = [cv EXCEPT !.notified = @ \ {t}, !.served = @ \cup {t}]
    ELSE /\ UNCHANGED lockVars
         /\ cv' = [cv EXCEPT !.notified = @ \ {t}]

\* cv.wait returns to a blocked thread, after a notify_all or without one,
\* as a condition variable may
WaitReturns(t) ==
    /\ pc[t] # "idle"
    /\ WakeAny(t)

\* cv.wait returns to a thread that notify_all has woken
NotifiedWake(t) ==
    /\ t \in cv.notified
    /\ WaitReturns(t)

\* every component as constructed: an empty lock table, a pool of free frames
\* over an empty database file, no pointer handed out, a WAL on an empty log
\* file, no recovery run and no transaction started
Init ==
    /\ lock_table_ = <<>>
    /\ txn_locks_ = <<>>
    /\ pc = [t \in Txns \cup TxnIds |-> "idle"]
    /\ wkey = [t \in Txns \cup TxnIds |-> NoKey]
    /\ bpm = NewBufferPool
    /\ disk = NewDisk
    /\ handles = [h \in 1..MaxHandles |-> NoHandle]
    /\ store = [p \in PageIds |-> ZeroPage]
    /\ wal = NewWAL
    /\ log_file = <<>>
    /\ appended = <<>>
    /\ open_pos = 0
    /\ recovery = NoRecovery
    /\ client = [t \in WalTxnIds |-> "none"]
    /\ engine = EngineOff
    /\ expected = NoneYet
    /\ last = NoCall
    /\ tree = NoTree
    /\ entries = NoEntries
    /\ slotted = NewSlotted
    /\ txn_mgr = NewTransactionManager
    /\ txn_call = [t \in TxnIds |-> "none"]
    /\ txn_ids = <<>>
    /\ filter = NoFilter
    /\ codec = NoCodec
    /\ cv = NoneWoken

NextLock ==
    \/ \E t \in Txns, rid \in Rids : LockShared(t, rid) /\ UNCHANGED notLockVars
    \/ \E t \in Txns, rid \in Rids : LockExclusive(t, rid) /\ UNCHANGED notLockVars
    \/ \E t \in Txns, rid \in Rids : LockUpgrade(t, rid) /\ UNCHANGED notLockVars
    \/ \E t \in Txns : WakeShared(t) /\ UNCHANGED notLockVars
    \/ \E t \in Txns : WakeExclusive(t) /\ UNCHANGED notLockVars
    \/ \E t \in Txns : WakeUpgrade(t) /\ UNCHANGED notLockVars
    \/ \E t \in Txns : UnlockAll(t) /\ UNCHANGED notLockVars

SpecLock == Init /\ [][NextLock]_vars

NextBuf ==
    \/ \E p \in PageIds : BufFetchPage(p) /\ UNCHANGED notBufVars
    \/ BufNewPage /\ UNCHANGED notBufVars
    \/ \E p \in PageIds, dirty \in BOOLEAN : BufUnpinPage(p, dirty) /\ UNCHANGED notBufVars
    \/ \E p \in PageIds : BufFlushPage(p) /\ UNCHANGED notBufVars
    \/ BufFlushAllPages /\ UNCHANGED notBufVars
    \/ \E p \in PageIds : BufDeletePage(p) /\ UNCHANGED notBufVars

SpecBuf == Init /\ [][NextBuf]_vars

NextStore ==
    \/ \E h \in 1..MaxHandles, p \in PageIds : StoreFetchPage(h, p) /\ UNCHANGED notBufVars
    \/ \E h \in 1..MaxHandles : StoreNewPage(h) /\ UNCHANGED notBufVars
    \/ \E h \in 1..MaxHandles, v \in 1..MaxVal : StoreWrite(h, v) /\ UNCHANGED notBufVars
    \/ \E h \in 1..MaxHandles, dirty \in BOOLEAN : StoreUnpinPage(h, dirty) /\ UNCHANGED notBufVars
    \/ \E p \in PageIds : StoreFlushPage(p) /\ UNCHANGED notBufVars
    \/ StoreFlushAllPages /\ UNCHANGED notBufVars

SpecStore == Init /\ [][NextStore]_vars

NextWal ==
    \/ \E t \in WalTxnIds, ty \in WalInputTypes : WalAppend(t, ty) /\ UNCHANGED notWalVars
    \/ WalFlush /\ UNCHANGED notWalVars
    \/ WalClose /\ UNCHANGED notWalVars
    \/ WalCrash /\ UNCHANGED notWalVars
    \/ WalOpen /\ UNCHANGED notWalVars

SpecWal == Init /\ [][NextWal]_vars

\* the longest record the callers of the log append: an UPDATE with two
\* images of one byte
MaxRecordBytes == 4 + FixedLen + 1 + 4 + 1

\* one WAL instance on a new file, then the damage to the file
NextCut ==
    \/ \E t \in WalTxnIds, ty \in WalInputTypes : WalAppend(t, ty) /\ UNCHANGED notWalVars
    \/ WalFlush /\ UNCHANGED notWalVars
    \/ WalClose /\ UNCHANGED notWalVars
    \/ WalCrash /\ UNCHANGED notWalVars
    \/ \E n \in 0..(MaxLogRecords * MaxRecordBytes) : WalCut(n) /\ UNCHANGED notWalVars
    \/ \E bytes \in Garbage : WalGarbage(bytes) /\ UNCHANGED notWalVars

SpecCut == Init /\ [][NextCut]_vars

RecPageIds == 0..(MaxRecPages - 1)
\* a page of PageSize bytes has room for fewer slots than this
RecSlotIds == 0..((PageSize - HeaderSize) \div SlotSize)

NextRec ==
    \/ RecNewPage /\ UNCHANGED notRecVars
    \/ \E t \in WalTxnIds : RecBegin(t) /\ UNCHANGED notRecVars
    \/ \E t \in WalTxnIds : RecCommit(t) /\ UNCHANGED notRecVars
    \/ \E t \in WalTxnIds, p \in RecPageIds, n \in 1..MaxRecLen :
          RecInsert(t, p, n) /\ UNCHANGED notRecVars
    \/ \E t \in WalTxnIds, p \in RecPageIds, sl \in RecSlotIds :
          RecDelete(t, p, sl) /\ UNCHANGED notRecVars
    \/ \E t \in WalTxnIds, p \in RecPageIds, sl \in RecSlotIds, n \in 1..MaxRecLen :
          RecUpdate(t, p, sl, n) /\ UNCHANGED notRecVars
    \/ \E p \in RecPageIds : RecFlushPage(p) /\ UNCHANGED notRecVars
    \/ RecCrash /\ UNCHANGED notRecVars
    \/ RecRecover /\ UNCHANGED notRecVars

SpecRec == Init /\ [][NextRec]_vars

\* the rids and the slots the callers of the heap file name
HeapRids == {[page_id |-> p, slot_id |-> sl] : p \in 0..(MaxHeapOps + 2), sl \in 0..MaxSlotId}

NextHeap ==
    \/ EngineStart /\ UNCHANGED notEngineVars
    \/ \E name \in Names : EngineCreateCollection(name) /\ UNCHANGED notEngineVars
    \/ \E name \in Names, doc \in Docs : HeapInsert(name, doc) /\ UNCHANGED notEngineVars
    \/ \E name \in Names, rid \in HeapRids : HeapDelete(name, rid) /\ UNCHANGED notEngineVars
    \/ \E name \in Names, rid \in HeapRids, doc \in Docs :
          HeapUpdate(name, rid, doc) /\ UNCHANGED notEngineVars
    \/ \E name \in Names, rid \in HeapRids : HeapGet(name, rid) /\ UNCHANGED notEngineVars
    \/ \E name \in Names : HeapSeqScan(name) /\ UNCHANGED notEngineVars

SpecHeap == Init /\ [][NextHeap]_vars

\* a document that no page holds: its string alone is as long as a page
\* without its header
BigLen == PageSize - HeaderSize
DocBig == <<[key |-> FieldA, kind |-> "string", value |-> [i \in 1..BigLen |-> 120]]>>

\* no frame of the pool has reached the largest pin count of the model
PinsBelowMax == \A f \in Frames : bpm.pages_[f].pin_count_ < MaxPin

\* the heap file of a collection whose callers also store a document of more
\* than 65535 bytes; they read while no pin count has reached MaxPin
NextWide ==
    \/ EngineStart /\ UNCHANGED notEngineVars
    \/ \E name \in Names : EngineCreateCollection(name) /\ UNCHANGED notEngineVars
    \/ \E name \in Names, doc \in {DocInt, DocWide} :
          HeapInsert(name, doc) /\ UNCHANGED notEngineVars
    \/ \E name \in Names, rid \in HeapRids : HeapDelete(name, rid) /\ UNCHANGED notEngineVars
    \/ \E name \in Names, rid \in HeapRids :
          PinsBelowMax /\ HeapGet(name, rid) /\ UNCHANGED notEngineVars
    \/ \E name \in Names : PinsBelowMax /\ HeapSeqScan(name) /\ UNCHANGED notEngineVars

SpecWide == Init /\ [][NextWide]_vars

\* the free space map of a collection under the inserts and deletes of its
\* heap file
NextFsm ==
    \/ EngineStart /\ UNCHANGED notEngineVars
    \/ \E name \in Names : EngineCreateCollection(name) /\ UNCHANGED notEngineVars
    \/ \E name \in Names, doc \in Docs : HeapInsert(name, doc) /\ UNCHANGED notEngineVars
    \/ \E name \in Names, rid \in HeapRids : HeapDelete(name, rid) /\ UNCHANGED notEngineVars
    \/ \E name \in Names, needed_bytes \in FsmNeeded :
          FsmFind(name, needed_bytes) /\ UNCHANGED notEngineVars

SpecFsm == Init /\ [][NextFsm]_vars

\* the engine over its lifetimes: every shutdown saves the catalog and every
\* later start loads it
NextCat ==
    \/ EngineStart /\ UNCHANGED notEngineVars
    \/ EngineShutdown /\ UNCHANGED notEngineVars
    \/ \E name \in Names : EngineCreateCollection(name) /\ UNCHANGED notEngineVars
    \/ \E name \in Names, doc \in Docs : HeapInsert(name, doc) /\ UNCHANGED notEngineVars
    \/ \E name \in Names, rid \in HeapRids : HeapDelete(name, rid) /\ UNCHANGED notEngineVars
    \/ \E name \in Names : HeapSeqScan(name) /\ UNCHANGED notEngineVars
    \/ \E name \in Names : EngineCreateIndex(name, FieldA) /\ UNCHANGED notEngineVars

SpecCat == Init /\ [][NextCat]_vars

NextTree ==
    \/ TreeCreate /\ UNCHANGED notTreeVars
    \/ \E key \in TreeKeys : TreeInsert(key) /\ UNCHANGED notTreeVars
    \/ \E key \in TreeKeys : TreeDelete(key) /\ UNCHANGED notTreeVars
    \/ \E key \in TreeKeys : TreeSearch(key) /\ UNCHANGED notTreeVars
    \/ \E lo_key \in TreeKeys, hi_key \in TreeKeys :
          TreeRangeScan(lo_key, hi_key) /\ UNCHANGED notTreeVars

SpecTree == Init /\ [][NextTree]_vars

\* an insert into the tree, whether it returns or throws
TreeInsertTried(r, key, rid) ==
    /\ bpm' = r.bpm
    /\ disk' = r.disk
    /\ tree' = r.tree
    /\ entries' = IF r.err THEN entries
                  ELSE [entries EXCEPT !.pairs = Append(@, <<key, rid>>)]

TreeInsertAny(key) ==
    /\ tree # NoTree
    /\ Len(entries.pairs) + entries.deletes < MaxTreeOps
    /\ PinsBelowMax
    /\ TreeInsertTried(Insert(bpm, disk, tree, key,
                              [page_id |-> Len(entries.pairs), slot_id |-> 0]),
                       key, [page_id |-> Len(entries.pairs), slot_id |-> 0])

\* another user of the pool keeps a page of the file pinned
PoolFetch(page_id) ==
    /\ page_id < disk.next_page_id_
    /\ StoreFetchPage(1, page_id)

PoolUnpin == StoreUnpinPage(1, FALSE)

\* the tree in a pool it shares with another user, who holds up to one pin
NextTreePool ==
    \/ TreeCreate /\ UNCHANGED notTreeVars
    \/ \E key \in TreeKeys : TreeInsertAny(key) /\ UNCHANGED notTreeVars
    \/ \E key \in TreeKeys : TreeDelete(key) /\ UNCHANGED notTreeVars
    \/ \E key \in TreeKeys : TreeSearch(key) /\ UNCHANGED notTreeVars
    \/ \E lo_key \in TreeKeys, hi_key \in TreeKeys :
          TreeRangeScan(lo_key, hi_key) /\ UNCHANGED notTreeVars
    \/ \E page_id \in PageIds : PoolFetch(page_id) /\ UNCHANGED notBufVars
    \/ PoolUnpin /\ UNCHANGED notBufVars

SpecTreePool == Init /\ [][NextTreePool]_vars

NextPage ==
    \/ PageInit /\ UNCHANGED notPageVars
    \/ \E record \in PageRecords : PageInsert(record) /\ UNCHANGED notPageVars
    \/ \E slot_id \in PageSlotIds : PageDelete(slot_id) /\ UNCHANGED notPageVars
    \/ \E slot_id \in PageSlotIds, record \in PageRecords :
          PageUpdate(slot_id, record) /\ UNCHANGED notPageVars

SpecPage == Init /\ [][NextPage]_vars

NextTxn ==
    \/ BeginAllocate /\ UNCHANGED notTxnVars
    \/ \E t \in TxnIds : BeginRegister(t) /\ UNCHANGED notTxnVars
    \/ \E t \in TxnIds, call \in {"commit", "abort"} :
           EndStart(t, call) /\ UNCHANGED notTxnVars
    \/ \E t \in TxnIds : EndUnlock(t) /\ UNCHANGED notTxnVars
    \/ \E t \in TxnIds : EndReturn(t) /\ UNCHANGED notTxnVars
    \/ \E t \in TxnIds, rid \in TxnRids : TxnLock(t, rid) /\ UNCHANGED notTxnVars
    \/ \E t \in TxnIds : TxnWake(t) /\ UNCHANGED notTxnVars
    \/ \E t \in TxnIds : WakeErased(t) /\ UNCHANGED notTxnVars

SpecTxn == Init /\ [][NextTxn]_vars

NextFilter ==
    \/ \E child \in FilterChildren, predicates \in FilterPredicateLists :
          FilterInit(child, predicates) /\ UNCHANGED notExecVars
    \/ FilterNext /\ UNCHANGED notExecVars
    \/ FilterClose /\ UNCHANGED notExecVars

SpecFilter == Init /\ [][NextFilter]_vars

NextCodec ==
    \/ \E i, j \in 0..Len(CodecValues) : CodecSerialize(CodecDoc(i, j)) /\ UNCHANGED notExecVars
    \/ CodecDeserialize /\ UNCHANGED notExecVars
    \/ CodecDone /\ UNCHANGED notExecVars

SpecCodec == Init /\ [][NextCodec]_vars

\* three threads with one transaction each on one record id
NextFair ==
    \/ \E t \in TxnIds, rid \in TxnRids : FairLockShared(t, rid) /\ UNCHANGED notFairVars
    \/ \E t \in TxnIds, rid \in TxnRids : FairLockExclusive(t, rid) /\ UNCHANGED notFairVars
    \/ \E t \in TxnIds, rid \in TxnRids : FairLockUpgrade(t, rid) /\ UNCHANGED notFairVars
    \/ \E t \in TxnIds : FairUnlockAll(t) /\ UNCHANGED notFairVars
    \/ \E t \in TxnIds : WaitReturns(t) /\ UNCHANGED notFairVars

\* a thread that notify_all has woken runs: it takes the latch and leaves
\* cv.wait
SpecFair ==
    /\ Init
    /\ [][NextFair]_vars
    /\ \A t \in TxnIds : WF_vars(NotifiedWake(t) /\ UNCHANGED notFairVars)

\* the names of two collections
TwoNames == {<<99>>, <<100>>}

\* a database with two collections whose heap files grow in any order
NextMulti ==
    \/ EngineStart /\ UNCHANGED notEngineVars
    \/ \E name \in TwoNames : EngineCreateCollection(name) /\ UNCHANGED notEngineVars
    \/ \E name \in TwoNames, doc \in {DocInt, DocStr} :
          HeapInsert(name, doc) /\ UNCHANGED notEngineVars
    \/ \E name \in TwoNames : HeapSeqScan(name) /\ UNCHANGED notEngineVars

SpecMulti == Init /\ [][NextMulti]_vars

\* the heap file of a collection whose callers also update a record to a
\* document that is too large for a page
NextBig ==
    \/ EngineStart /\ UNCHANGED notEngineVars
    \/ \E name \in Names : EngineCreateCollection(name) /\ UNCHANGED notEngineVars
    \/ \E name \in Names, doc \in {DocInt, DocStr} :
          HeapInsert(name, doc) /\ UNCHANGED notEngineVars
    \/ \E name \in Names, rid \in HeapRids, doc \in {DocInt, DocStr, DocBig} :
          HeapUpdate(name, rid, doc) /\ UNCHANGED notEngineVars
    \/ \E name \in Names, rid \in HeapRids : HeapGet(name, rid) /\ UNCHANGED notEngineVars

SpecBig == Init /\ [][NextBig]_vars

\* the key HandleInsert adds to an index for a document: the string of the
\* field or the decimal form of its int32, unless that string is empty
HandleInsertKeys(doc, field_name) ==
    SelectSeq(IndexKeys(doc, field_name), LAMBDA key_str : key_str # <<>>)

RECURSIVE UpdateIndexes(_, _, _, _, _, _)

\* the loop "Update indexes" of HandleInsert once the insert into index i
\* has answered ins: a throw leaves the later indexes as they are
UpdateIndexNext(ins, indexes, i, doc, rid) ==
    IF ins.err
    THEN [bpm |-> ins.bpm, disk |-> ins.disk,
          indexes |-> [indexes EXCEPT ![i].btree = ins.tree], err |-> TRUE]
    ELSE UpdateIndexes(ins.bpm, ins.disk, [indexes EXCEPT ![i].btree = ins.tree],
                       i + 1, doc, rid)

\* the loop "Update indexes" of HandleInsert from index i on
UpdateIndexes(b, d, indexes, i, doc, rid) ==
    IF i > Len(indexes) THEN [bpm |-> b, disk |-> d, indexes |-> indexes, err |-> FALSE]
    ELSE IF HandleInsertKeys(doc, indexes[i].field_name) = <<>>
    THEN UpdateIndexes(b, d, indexes, i + 1, doc, rid)
    ELSE UpdateIndexNext(Insert(b, d, indexes[i].btree,
                                Head(HandleInsertKeys(doc, indexes[i].field_name)), rid),
                         indexes, i, doc, rid)

\* HandleInsert once the indexes are updated as u
HandleInsertDone(u, r, name) ==
    /\ bpm' = u.bpm
    /\ disk' = u.disk
    /\ engine' = [engine EXCEPT !.collections_[name].heap_file = r.heap,
                                !.collections_[name].indexes = u.indexes]
    /\ last' = [NoCall EXCEPT !.op = "insert", !.failed = u.err]

\* HandleInsert once InsertRecord has answered r: what it throws is caught
\* and reported
HandleInserted(r, name, doc) ==
    IF r.err
    THEN /\ bpm' = r.bpm
         /\ disk' = r.disk
         /\ engine' = [engine EXCEPT !.collections_[name].heap_file = r.heap]
         /\ last' = [NoCall EXCEPT !.op = "insert", !.failed = TRUE]
    ELSE HandleInsertDone(UpdateIndexes(r.bpm, r.disk, engine.collections_[name].indexes,
                                        1, doc, r.rid), r, name)

\* "insert": CLI::HandleInsert on the collection in use
HandleInsert(name, doc) ==
    /\ engine.running
    /\ name \in DOMAIN engine.collections_
    /\ expected.ops < MaxHeapOps
    /\ HandleInserted(HeapInsertRecord(bpm, disk, engine.collections_[name].heap_file, doc),
                      name, doc)
    /\ expected' = [expected EXCEPT !.ops = @ + 1]

\* a sequential scan of the heap file of the collection reads heap pages
\* only: the heap file has not grown since the root of its first index was
\* allocated, so no page of a tree lies between its first and its last page
ScansHeapOnly(name) ==
    \A i \in 1..Len(engine.collections_[name].indexes) :
        engine.collections_[name].heap_file.max_page_id_
            < engine.collections_[name].indexes[i].btree_root_page

\* the tuples the filter over a sequential scan returns
Filtered(tuples, predicates) == SelectSeq(tuples, LAMBDA tuple : Pass(predicates, tuple.doc))

RECURSIVE DeleteAll(_, _, _, _)

\* the loop "Delete them" once DeleteRecord has answered del
DeleteAllNext(del, h, to_delete) == DeleteAll(del.bpm, del.disk, h, to_delete)

\* the loop "Delete them" of HandleDelete over the record ids to_delete
DeleteAll(b, d, h, to_delete) ==
    IF to_delete = <<>> THEN [bpm |-> b, disk |-> d]
    ELSE DeleteAllNext(HeapDeleteRecord(b, d, h, Head(to_delete).rid), h, Tail(to_delete))

\* HandleDelete once the scan has answered scan: a throw of the scan is
\* caught before anything is deleted; no index of the collection is touched
HandleDeleted(scan, h, predicates) ==
    /\ bpm' = IF scan.err THEN scan.bpm
              ELSE DeleteAll(scan.bpm, scan.disk, h, Filtered(scan.tuples, predicates)).bpm
    /\ disk' = IF scan.err THEN scan.disk
               ELSE DeleteAll(scan.bpm, scan.disk, h, Filtered(scan.tuples, predicates)).disk
    /\ last' = [NoCall EXCEPT !.op = "delete", !.failed = scan.err]

\* "delete": CLI::HandleDelete on the collection in use
HandleDelete(name, predicates) ==
    /\ engine.running
    /\ name \in DOMAIN engine.collections_
    /\ expected.ops < MaxHeapOps
    /\ ScansHeapOnly(name)
    /\ HandleDeleted(HeapScan(bpm, disk, engine.collections_[name].heap_file),
                     engine.collections_[name].heap_file, predicates)
    /\ expected' = [expected EXCEPT !.ops = @ + 1]
    /\ UNCHANGED engine

RECURSIVE MergeDocs(_, _)
\* "Merge update fields into existing doc": the elements of update_doc
\* assigned into the map of the elements of doc, in the order of the keys
MergeDocs(doc, update_doc) ==
    IF doc = <<>> THEN update_doc
    ELSE IF update_doc = <<>> THEN doc
    ELSE IF Head(doc).key = Head(update_doc).key
    THEN <<Head(update_doc)>> \o MergeDocs(Tail(doc), Tail(update_doc))
    ELSE IF StrLess(Head(doc).key, Head(update_doc).key)
    THEN <<Head(doc)>> \o MergeDocs(Tail(doc), update_doc)
    ELSE <<Head(update_doc)>> \o MergeDocs(doc, Tail(update_doc))

RECURSIVE UpdateAll(_, _, _, _, _)

\* the loop over to_update once UpdateRecord has answered upd: a throw ends
\* the loop
UpdateAllNext(upd, to_update, update_doc) ==
    IF upd.err THEN [bpm |-> upd.bpm, disk |-> upd.disk, heap |-> upd.heap, err |-> TRUE]
    ELSE UpdateAll(upd.bpm, upd.disk, upd.heap, to_update, update_doc)

\* the loop of HandleUpdate over the tuples to_update
UpdateAll(b, d, h, to_update, update_doc) ==
    IF to_update = <<>> THEN [bpm |-> b, disk |-> d, heap |-> h, err |-> FALSE]
    ELSE UpdateAllNext(HeapUpdateRecord(b, d, h, Head(to_update).rid,
                                        MergeDocs(Head(to_update).doc, update_doc)),
                       Tail(to_update), update_doc)

\* HandleUpdate once the records are updated as u; no index of the
\* collection is touched
HandleUpdateDone(u, name) ==
    /\ bpm' = u.bpm
    /\ disk' = u.disk
    /\ engine' = [engine EXCEPT !.collections_[name].heap_file = u.heap]
    /\ last' = [NoCall EXCEPT !.op = "update", !.failed = u.err]

\* HandleUpdate once the scan has answered scan
HandleUpdated(scan, name, h, predicates, update_doc) ==
    IF scan.err
    THEN HandleUpdateDone([bpm |-> scan.bpm, disk |-> scan.disk, heap |-> h, err |-> TRUE],
                          name)
    ELSE HandleUpdateDone(UpdateAll(scan.bpm, scan.disk, h,
                                    Filtered(scan.tuples, predicates), update_doc), name)

\* "update": CLI::HandleUpdate on the collection in use
HandleUpdate(name, predicates, update_doc) ==
    /\ engine.running
    /\ name \in DOMAIN engine.collections_
    /\ expected.ops < MaxHeapOps
    /\ ScansHeapOnly(name)
    /\ HandleUpdated(HeapScan(bpm, disk, engine.collections_[name].heap_file), name,
                     engine.collections_[name].heap_file, predicates, update_doc)
    /\ expected' = [expected EXCEPT !.ops = @ + 1]

RECURSIVE IndexScanFrom(_, _, _, _)

\* IndexScanExecutor::Next once GetRecord has answered g for the first of
\* the results left
IndexScanNext(g, results, tuples) ==
    IF g.err THEN [bpm |-> g.bpm, disk |-> g.disk, tuples |-> tuples, err |-> TRUE]
    ELSE IndexScanFrom(g.bpm, g.disk, Tail(results),
                       Append(tuples, [key |-> Head(results)[1], rid |-> Head(results)[2],
                                       doc |-> g.doc]))

\* the calls of IndexScanExecutor::Next until it returns false or throws,
\* over the results from current_idx_ on
IndexScanFrom(b, d, results, tuples) ==
    IF results = <<>> THEN [bpm |-> b, disk |-> d, tuples |-> tuples, err |-> FALSE]
    ELSE IndexScanNext(HeapGetRecord(b, d, Head(results)[2]), results, tuples)

\* IndexScanExecutor::Init and the calls of Next, the range scan having
\* answered s
IndexScanOver(s) == IndexScanFrom(s.bpm, s.disk, s.results, <<>>)

IndexScanned(r, field_name) ==
    /\ bpm' = r.bpm
    /\ disk' = r.disk
    /\ last' = [op |-> "index_scan", missing |-> FALSE, failed |-> r.err,
                field_name |-> field_name, tuples |-> r.tuples]

\* an IndexScanExecutor over the first index of the collection and its heap
\* file, run to its end
IndexScan(name, lo_key, hi_key) ==
    /\ engine.running
    /\ name \in DOMAIN engine.collections_
    /\ engine.collections_[name].indexes # <<>>
    /\ IndexScanned(IndexScanOver(RangeScan(bpm, disk,
                                            engine.collections_[name].indexes[1].btree,
                                            lo_key, hi_key)),
                    engine.collections_[name].indexes[1].field_name)
    /\ UNCHANGED <<engine, expected>>

\* the predicate lists of the callers of an indexed collection: the field a
\* equal to the value of one of the documents
IndexedPredicates ==
    {<<[field_name |-> FieldA, op |-> "EQ", value |-> [kind |-> doc[1].kind,
                                                        value |-> doc[1].value]]>> :
        doc \in {DocInt, DocStr}}

\* the ranges of the index scans: all keys, and the key of one document
IndexRanges == {<<<<49>>, <<120>>>>, <<<<120>>, <<120>>>>}

\* a collection with an index on the field a under the insert, delete and
\* update commands of the engine
NextIndexed ==
    \/ EngineStart /\ UNCHANGED notEngineVars
    \/ \E name \in Names : EngineCreateCollection(name) /\ UNCHANGED notEngineVars
    \/ \E name \in Names : EngineCreateIndex(name, FieldA) /\ UNCHANGED notEngineVars
    \/ \E name \in Names, doc \in {DocInt, DocStr} :
          HandleInsert(name, doc) /\ UNCHANGED notEngineVars
    \/ \E name \in Names, predicates \in IndexedPredicates :
          HandleDelete(name, predicates) /\ UNCHANGED notEngineVars
    \/ \E name \in Names, predicates \in IndexedPredicates, update_doc \in {DocInt, DocStr} :
          HandleUpdate(name, predicates, update_doc) /\ UNCHANGED notEngineVars
    \/ \E name \in Names, range \in IndexRanges :
          IndexScan(name, range[1], range[2]) /\ UNCHANGED notEngineVars

SpecIndexed == Init /\ [][NextIndexed]_vars

Spec == SpecLock

\* ------------------------------------------------------------------------
\* Claims about the lock manager
\* ------------------------------------------------------------------------

GrantedOf(key) ==
    LET queue == lock_table_[key]
    IN {i \in 1..Len(queue) : queue[i].granted}

\* C1: under every interleaving of lock_shared, lock_exclusive, lock_upgrade
\* and unlock_all, two distinct transactions hold granted locks on the same
\* record id only when both locks are SHARED.
C1_NoConflictingHolders ==
    \A key \in DOMAIN lock_table_ :
        \A i, j \in GrantedOf(key) :
            lock_table_[key][i].txn_id # lock_table_[key][j].txn_id =>
                /\ lock_table_[key][i].mode = "SHARED"
                /\ lock_table_[key][j].mode = "SHARED"

\* C1 witness: two transactions share a record id, one of them holds an
\* EXCLUSIVE lock on the other record id and the other one is blocked in
\* lock_exclusive on it.
C1_Witness ==
    \E k1, k2 \in DOMAIN lock_table_ :
        /\ k1 # k2
        /\ \E i, j \in GrantedOf(k1) :
              lock_table_[k1][i].txn_id # lock_table_[k1][j].txn_id
        /\ \E i \in GrantedOf(k2) : lock_table_[k2][i].mode = "EXCLUSIVE"
        /\ \E t \in Txns : pc[t] = "wait_exclusive" /\ wkey[t] = k2

GrantedModes(key, mode) ==
    {i \in GrantedOf(key) : lock_table_[key][i].mode = mode}

\* C2 as stated: for each record id the granted requests of its queue are
\* at most one EXCLUSIVE request, or any number of SHARED requests, never a
\* granted EXCLUSIVE request together with a granted SHARED request.
C2_Original ==
    \A key \in DOMAIN lock_table_ :
        \/ /\ Cardinality(GrantedModes(key, "EXCLUSIVE")) <= 1
           /\ GrantedModes(key, "SHARED") = {}
        \/ GrantedModes(key, "EXCLUSIVE") = {}

\* C2 amended: for each record id the granted requests of its queue are
\* either all SHARED, or they all belong to one transaction, which then has
\* at most two granted requests there (its SHARED request stays granted
\* beside the EXCLUSIVE request that lock_exclusive appended).
C2_Amended ==
    \A key \in DOMAIN lock_table_ :
        \/ GrantedModes(key, "EXCLUSIVE") = {}
        \/ /\ Cardinality({lock_table_[key][i].txn_id : i \in GrantedOf(key)}) = 1
           /\ Cardinality(GrantedOf(key)) <= 2

\* C2 witness: a transaction holds a granted SHARED and a granted EXCLUSIVE
\* request on one record id while the other transaction is blocked on it.
C2_Witness ==
    \E key \in DOMAIN lock_table_ :
        /\ GrantedModes(key, "EXCLUSIVE") # {}
        /\ GrantedModes(key, "SHARED") # {}
        /\ \E t \in Txns : pc[t] = "wait_shared" /\ wkey[t] = key

\* ------------------------------------------------------------------------
\* Claims about the buffer pool
\* ------------------------------------------------------------------------

\* C3 as stated: the pool with the disk is a plain page store: whenever
\* fetch(id) returns a page, its content is the content most recently
\* written to page id by a caller that kept the pin discipline.
C3_FetchReturnsLastWrite ==
    \A p \in PageIds :
        LET r == FetchPage(bpm, disk, p)
        IN r.frame # INVALID_FRAME_ID => r.bpm.pages_[r.frame].data_ = store[p]

C5_PageTableOneToOne ==
    /\ \A p, q \in DOMAIN bpm.page_table_ :
          bpm.page_table_[p] = bpm.page_table_[q] => p = q
    /\ \A p \in DOMAIN bpm.page_table_ :
          p >= 0 => bpm.pages_[bpm.page_table_[p]].page_id_ = p

\* C5 witness: every frame is mapped and new_page has handed out more page
\* ids than there are frames, so a frame was rebound from one page id to
\* another.
C5_Witness ==
    /\ Cardinality(DOMAIN bpm.page_table_) = PoolSize
    /\ disk.next_page_id_ > PoolSize

\* ------------------------------------------------------------------------
\* Claims about the write-ahead log
\* ------------------------------------------------------------------------

\* the bytes this WAL instance has put into the log file
SessionBytes == SubSeq(log_file, open_pos + 1, Len(log_file))

\* C6: when the append of a COMMIT record has returned, that record and
\* every record appended before it are in the log file, in the order of
\* their appends; this stays so when the process dies and the buffer is
\* discarded.
C6_CommitForcesLog ==
    LET inFile == ReadAllRecords(SessionBytes).records
    IN \A k \in 1..Len(appended) :
          appended[k].type = COMMIT =>
              /\ Len(inFile) >= k
              /\ SubSeq(inFile, 1, k) = SubSeq(appended, 1, k)

\* C6 witness: the process has died after a COMMIT of one transaction that
\* followed a record of the other transaction, and a record appended after
\* the COMMIT was lost with the buffer.
C6_Witness ==
    /\ ~wal.open
    /\ Len(ReadAllRecords(SessionBytes).records) < Len(appended)
    /\ \E k \in 2..Len(appended) :
          /\ appended[k].type = COMMIT
          /\ appended[k - 1].txn_id # appended[k].txn_id

\* C7: the records one WAL instance writes (to the file, then to its buffer)
\* are the records its appends returned, in that order, their LSNs strictly
\* increase, and each prev_lsn is the LSN of the latest earlier record of the
\* same transaction, or INVALID_LSN when there is none.
C7_LsnOrderAndPrevLsn ==
    LET w == ReadAllRecords(SessionBytes \o wal.buffer_)
        r == w.records
    IN /\ ~w.ub
       /\ r = SubSeq(appended, 1, Len(r))
       /\ wal.open => Len(r) = Len(appended)
       /\ \A i, j \in 1..Len(r) : i < j => r[i].lsn < r[j].lsn
       /\ \A i \in 1..Len(r) :
             LET earlier == {j \in 1..(i - 1) : r[j].txn_id = r[i].txn_id}
             IN r[i].prev_lsn =
                  IF earlier = {} THEN INVALID_LSN
                  ELSE r[CHOOSE j \in earlier : \A k \in earlier : k <= j].lsn

\* C7 witness: the WAL wrote a record of one transaction between two records
\* of the other; the first of them is in the file, the last one in the
\* buffer.
C7_Witness ==
    LET r == ReadAllRecords(SessionBytes \o wal.buffer_).records
    IN /\ wal.open
       /\ SessionBytes # <<>>
       /\ wal.buffer_ # <<>>
       /\ Len(r) = 3
       /\ r[1].txn_id = r[3].txn_id
       /\ r[2].txn_id # r[1].txn_id
       /\ r[3].prev_lsn = r[1].lsn

\* C8 as stated: the LSNs ReadAllRecords reads back from the log file are
\* pairwise distinct and strictly increasing in file order, also when the
\* file was written by a WAL that was closed and opened again.
C8_LsnsIncreaseOverFile ==
    LET r == ReadAllRecords(log_file).records
    IN \A i, j \in 1..Len(r) : i < j => r[i].lsn < r[j].lsn

\* ------------------------------------------------------------------------
\* Claims about the recovery manager
\* ------------------------------------------------------------------------

\* the content of the page as the pool hands it out
PageNow(page_id) == PageOf(page_id)

\* the records that are live on the page
Live(data) ==
    {GetRecord(data, sl) : sl \in 0..(U16(data, NumSlotsAt) - 1)} \ {<<>>}

\* the transactions of the log with a COMMIT or an ABORT record
Ended(records) ==
    {records[i].txn_id : i \in {j \in 1..Len(records) : records[j].type \in {COMMIT, ABORT}}}

\* C9 as stated: when Recover() has completed, for every transaction without
\* a COMMIT or ABORT record in the log, no record it inserted is live on its
\* page and every record it deleted (and had not itself written) is live
\* again with its before-image, whatever part of the logged changes the page
\* on disk held at the crash.
C9_UndoRollsBackUncommitted ==
    recovery.phase = "recovered" =>
        LET records == LogRecords
        IN \A i \in 1..Len(records) :
              records[i].txn_id \notin Ended(records) =>
                  /\ records[i].type = INSERT =>
                        records[i].after_image \notin Live(PageNow(records[i].page_id))
                  /\ (/\ records[i].type = DELETE
                      /\ \A j \in 1..Len(records) :
                            records[j].txn_id = records[i].txn_id =>
                                records[j].after_image # records[i].before_image)
                        => records[i].before_image \in Live(PageNow(records[i].page_id))

\* C10 as stated: the redo phase of Recover() re-applies every INSERT, DELETE
\* and UPDATE record of the log that names a valid page; the test of the
\* record's lsn against the rec-lsn of its page skips none.
C10_RedoReappliesAll ==
    recovery.phase = "recovered" =>
        LET records == LogRecords
        IN \A i \in 1..Len(records) :
              (records[i].type \in {INSERT, DELETE, UPDATE}
               /\ records[i].page_id # INVALID_PAGE_ID)
                  => recovery.outcome[i] = "redone"

\* C11: when Recover() has completed, for every UPDATE record of a
\* transaction without a COMMIT or ABORT record in the log, the slot the
\* record names holds the record's before-image, whatever the lengths of the
\* before-image and the after-image. Stated for the slots that are live when
\* recovery is over, which the claim's statement implies.
C11_UndoRestoresBeforeImage ==
    recovery.phase = "recovered" =>
        LET records == LogRecords
        IN \A i \in 1..Len(records) :
              (/\ records[i].type = UPDATE
               /\ records[i].txn_id \notin Ended(records)
               /\ GetRecord(PageNow(records[i].page_id), records[i].slot_id) # <<>>)
                  => GetRecord(PageNow(records[i].page_id), records[i].slot_id)
                         = records[i].before_image

\* ------------------------------------------------------------------------
\* Claims about the heap file
\* ------------------------------------------------------------------------

\* C12: a heap file is a map from record ids to documents: whatever inserts,
\* deletes and updates have been called, GetRecord on a record id that insert
\* or update returned and that was not deleted since returns, without
\* throwing, the document most recently stored under it.
C12_HeapIsMap ==
    \A name \in DOMAIN expected.names :
        \A rid \in DOMAIN expected.names[name] :
            /\ ~HeapGetRecord(bpm, disk, rid).err
            /\ HeapGetRecord(bpm, disk, rid).doc = expected.names[name][rid]

\* the heap file of a collection
HeapOf(name) == engine.collections_[name].heap_file

\* (page id, slot) order of record ids
RidLess(r1, r2) ==
    \/ r1.page_id < r2.page_id
    \/ r1.page_id = r2.page_id /\ r1.slot_id < r2.slot_id

\* a scan that returned the tuples yielded exactly the record ids live, each
\* once, in increasing (page id, slot) order, each with the document
\* GetRecord returns for it
YieldsExactly(tuples, live) ==
    /\ {tuples[i].rid : i \in 1..Len(tuples)} = live
    /\ Len(tuples) = Cardinality(live)
    /\ \A i \in 1..(Len(tuples) - 1) : RidLess(tuples[i].rid, tuples[i + 1].rid)
    /\ \A i \in 1..Len(tuples) :
          tuples[i].doc = HeapGetRecord(bpm, disk, tuples[i].rid).doc

ScanYieldsExactly(scan, live) == ~scan.err /\ YieldsExactly(scan.tuples, live)

LiveRecords(b, d, h) ==
    UNION {{<<p, s, GetRecord(PageIn(b, d, p), s)>> :
               s \in {sl \in 0..(U16(PageIn(b, d, p), NumSlotsAt) - 1) :
                          GetRecord(PageIn(b, d, p), sl) # <<>>}} :
           p \in h.first_page_id_..h.max_page_id_}

\* C14: a call of GetRecord, DeleteRecord or UpdateRecord on a record id
\* whose slot does not exist or is a tombstone reports failure (GetRecord
\* throws, DeleteRecord returns false, UpdateRecord throws or returns no
\* record id) and leaves the live records of the heap file as they were.
C14_MissingRidFails ==
    [][(last'.missing /\ last'.op \in {"get", "delete", "update"})
          => /\ last'.failed
             /\ \A name \in DOMAIN engine.collections_ :
                   LiveRecords(bpm', disk', engine'.collections_[name].heap_file)
                       = LiveRecords(bpm, disk, HeapOf(name))]_vars

\* ------------------------------------------------------------------------
\* Claims about the catalog
\* ------------------------------------------------------------------------

\* C15: when the engine runs on a catalog that LoadCatalog read, the heap
\* file of every collection covers all its pages: a sequential scan ends
\* without throwing and yields exactly the live records of the collection,
\* those inserted before the shutdown and those inserted after the load.
C15_ScanAfterLoad ==
    (engine.running /\ engine.loaded) =>
        \A name \in DOMAIN expected.names :
            /\ name \in DOMAIN engine.collections_
            /\ ScanYieldsExactly(HeapScan(bpm, disk, HeapOf(name)), DOMAIN ExpectedOf(name))

\* ------------------------------------------------------------------------
\* Claims about the B+ tree
\* ------------------------------------------------------------------------

\* the keys of the pairs inserted so far
InsertedKeys == {entries.pairs[i][1] : i \in 1..Len(entries.pairs)}

\* the smallest and the largest of a non-empty set of keys
MinKey(keys) == CHOOSE k \in keys : \A other \in keys : StrLessEq(k, other)
MaxKey(keys) == CHOOSE k \in keys : \A other \in keys : StrLessEq(other, k)

\* the results are exactly the pairs, each once, in non-decreasing key order
ExactlyInOrder(results, pairs) ==
    /\ Len(results) = Len(pairs)
    /\ Range(results) = Range(pairs)
    /\ \A i \in 1..(Len(results) - 1) : StrLessEq(results[i][1], results[i + 1][1])

\* C16: after N inserts and no delete, with any keys (duplicates permitted),
\* RangeScan from the smallest to the largest inserted key returns exactly
\* the N (key, rid) pairs inserted, in non-decreasing key order.
C16_RangeScanReturnsAll ==
    (tree # NoTree /\ entries.deletes = 0 /\ entries.pairs # <<>>) =>
        ExactlyInOrder(RangeScan(bpm, disk, tree, MinKey(InsertedKeys),
                                 MaxKey(InsertedKeys)).results,
                       entries.pairs)

\* the node stored in a page, as a tree over the pool b and the disk d
\* reads it
IsLeaf(b, d, page_id) == ReadNodeHeader(PageIn(b, d, page_id)).is_leaf # 0
LeafKeys(b, d, page_id) == ReadLeafNode(PageIn(b, d, page_id)).keys
NodeKeys(b, d, page_id) == ReadInternalNode(PageIn(b, d, page_id)).keys
NodeChildren(b, d, page_id) == ReadInternalNode(PageIn(b, d, page_id)).children

RECURSIVE LeavesUnder(_, _, _)
RECURSIVE LeavesOf(_, _, _)
\* the leaves of the subtree of a node, from left to right
LeavesUnder(b, d, page_id) ==
    IF IsLeaf(b, d, page_id) THEN <<page_id>>
    ELSE LeavesOf(b, d, NodeChildren(b, d, page_id))

\* the leaves of the subtrees of the children, from left to right
LeavesOf(b, d, children) ==
    IF children = <<>> THEN <<>>
    ELSE LeavesUnder(b, d, Head(children)) \o LeavesOf(b, d, Tail(children))

RECURSIVE NodesUnder(_, _, _)
\* the internal nodes of the subtree of a node
NodesUnder(b, d, page_id) ==
    IF IsLeaf(b, d, page_id) THEN {}
    ELSE {page_id} \cup UNION {NodesUnder(b, d, c) : c \in Range(NodeChildren(b, d, page_id))}

\* the keys stored in the leaves of the subtree of a node
KeysUnder(b, d, page_id) ==
    UNION {Range(LeafKeys(b, d, l)) : l \in Range(LeavesUnder(b, d, page_id))}

\* the keys of a vector are in non-decreasing order
Sorted(keys) == \A i \in 1..(Len(keys) - 1) : StrLessEq(keys[i], keys[i + 1])

\* every separator of the node is above the keys of the subtree on its left
\* and not above any key of the subtree on its right
Separates(keys, children) ==
    \A i \in 1..Len(keys) :
        /\ \A k \in KeysUnder(bpm, disk, children[i]) : StrLess(k, keys[i])
        /\ \A k \in KeysUnder(bpm, disk, children[i + 1]) : StrLessEq(keys[i], k)

\* C17: after any sequence of inserts (duplicates permitted) every leaf of
\* the tree is sorted by key and every internal node satisfies, for each of
\* its separators, max(keys of the left subtree) < separator <= min(keys of
\* the right subtree).
C17_SortedAndSeparated ==
    (tree # NoTree /\ entries.deletes = 0) =>
        /\ \A l \in Range(LeavesUnder(bpm, disk, tree.root_page_id_)) :
              Sorted(LeafKeys(bpm, disk, l))
        /\ \A n \in NodesUnder(bpm, disk, tree.root_page_id_) :
              Separates(NodeKeys(bpm, disk, n), NodeChildren(bpm, disk, n))

RECURSIVE Leftmost(_, _, _)
\* the leaf reached from a node through first children
Leftmost(b, d, page_id) ==
    IF IsLeaf(b, d, page_id) THEN page_id
    ELSE Leftmost(b, d, Head(NodeChildren(b, d, page_id)))

ChainPrepend(page_id, rest) == [leaves |-> <<page_id>> \o rest.leaves, ended |-> rest.ended]

RECURSIVE ChainFrom(_, _, _, _)
\* the pages met by following next_leaf from a page on, for at most fuel
\* steps; ended says that the invalid page id was reached
ChainFrom(b, d, page_id, fuel) ==
    IF page_id = INVALID_PAGE_ID THEN [leaves |-> <<>>, ended |-> TRUE]
    ELSE IF fuel = 0 THEN [leaves |-> <<>>, ended |-> FALSE]
    ELSE ChainPrepend(page_id,
                      ChainFrom(b, d, ReadNodeHeader(PageIn(b, d, page_id)).next_leaf,
                                fuel - 1))

\* the leaf chain of the tree t from its leftmost leaf; no chain without a
\* cycle is longer than the number of pages allocated
Chain(b, d, t) == ChainFrom(b, d, Leftmost(b, d, t.root_page_id_), d.next_page_id_)

RECURSIVE KeysAlong(_)
\* the keys of the leaves, in the order of the leaves
KeysAlong(leaves) ==
    IF leaves = <<>> THEN <<>>
    ELSE LeafKeys(bpm, disk, Head(leaves)) \o KeysAlong(Tail(leaves))

\* the chain visits every leaf of the tree once, from left to right, ends at
\* the invalid page id, and meets the keys in non-decreasing order
ChainIsOrder(chain, leaves) ==
    /\ chain.ended
    /\ chain.leaves = leaves
    /\ Cardinality(Range(leaves)) = Len(leaves)
    /\ Sorted(KeysAlong(chain.leaves))

\* a step that adds a leaf keeps the leaves that were in the chain in their
\* order: the new leaf stands between the leaf that split and the leaf that
\* followed it
SplitKeepsChain(before, after) ==
    Len(after) > Len(before) =>
        /\ Len(after) = Len(before) + 1
        /\ SelectSeq(after, LAMBDA l : l \in Range(before)) = before

\* C18: after any sequence of inserts and deletes, following next_leaf from
\* the leftmost leaf visits every leaf of the tree exactly once and ends at
\* the invalid page id, the keys met along the chain are in non-decreasing
\* order, and a leaf split keeps the chain: the new leaf comes right after the
\* leaf that split, before the leaf that followed it.
C18_LeafChain ==
    /\ [](tree # NoTree => ChainIsOrder(Chain(bpm, disk, tree),
                                        LeavesUnder(bpm, disk, tree.root_page_id_)))
    /\ [][tree # NoTree => SplitKeepsChain(Chain(bpm, disk, tree).leaves,
                                           Chain(bpm', disk', tree').leaves)]_vars

\* the tree has three levels and a leaf has been emptied by deletes: leaves
\* and internal nodes have split
C18_Witness ==
    /\ tree # NoTree
    /\ ~IsLeaf(bpm, disk, tree.root_page_id_)
    /\ ~IsLeaf(bpm, disk, Head(NodeChildren(bpm, disk, tree.root_page_id_)))
    /\ entries.deletes > 0
    /\ Len(Chain(bpm, disk, tree).leaves) >= 4

\* the keys of the documents the callers store, as CreateIndex derives them
ProbeKeys == UNION {Range(IndexKeys(doc, FieldA)) : doc \in Docs}

\* the two tree objects answer every Search and every RangeScan alike
SameAnswers(t1, t2) ==
    /\ \A key \in ProbeKeys : Search(bpm, disk, t1, key).rid = Search(bpm, disk, t2, key).rid
    /\ \A lo_key \in ProbeKeys, hi_key \in ProbeKeys :
          RangeScan(bpm, disk, t1, lo_key, hi_key).results
              = RangeScan(bpm, disk, t2, lo_key, hi_key).results

\* the index read back is the index saved: the same field bound to the root
\* page the tree had, and the same answers
SameIndex(loaded, saved) ==
    /\ loaded.field_name = saved.field_name
    /\ loaded.btree.root_page_id_ = saved.btree.root_page_id_
    /\ SameAnswers(loaded.btree, saved.btree)

\* the catalog read back is the catalog saved
Reproduces(loaded, saved) ==
    /\ DOMAIN loaded = DOMAIN saved
    /\ \A name \in DOMAIN saved :
          /\ loaded[name].fsm_page = saved[name].fsm_page
          /\ loaded[name].first_heap_page = saved[name].first_heap_page
          /\ Len(loaded[name].indexes) = Len(saved[name].indexes)
          /\ \A i \in 1..Len(saved[name].indexes) :
                SameIndex(loaded[name].indexes[i], saved[name].indexes[i])

\* C19: when the engine has just started on the file a shutdown saved, the
\* catalog LoadCatalog read is the catalog that was in memory at the
\* shutdown: the same collection names, FSM page and first heap page, and
\* for each index the same field name bound to the root page the tree had at
\* the shutdown, so that Search and RangeScan answer as they did, also when
\* the root has split since CreateIndex allocated it.
C19_SaveLoadReproduces ==
    (engine.running /\ engine.loaded /\ last.op = "start") =>
        Reproduces(engine.collections_, expected.saved)

\* ------------------------------------------------------------------------
\* Claims about the slotted page
\* ------------------------------------------------------------------------

SlotOffset(data, i) == U16(data, SlotOffsetAt(i))
SlotLength(data, i) == U16(data, SlotLengthAt(i))
LiveSlots(data) == {i \in 0..(U16(data, NumSlotsAt) - 1) : SlotLength(data, i) # 0}

\* the header counts the slot directory and the free space lies between the
\* directory and the records
HeaderSound(num_slots, free_begin, free_end) ==
    /\ free_begin = HeaderSize + SlotSize * num_slots
    /\ free_begin <= free_end
    /\ free_end <= PageSize

\* every live record lies in the record area and no two of them overlap
RecordsSound(data, live, free_end) ==
    /\ \A i \in live :
          /\ free_end <= SlotOffset(data, i)
          /\ SlotOffset(data, i) + SlotLength(data, i) <= PageSize
    /\ \A i, j \in live :
          i # j => \/ SlotOffset(data, i) + SlotLength(data, i) <= SlotOffset(data, j)
                   \/ SlotOffset(data, j) + SlotLength(data, j) <= SlotOffset(data, i)

PageSound(data) ==
    /\ HeaderSound(U16(data, NumSlotsAt), U16(data, FreeBeginAt), U16(data, FreeEndAt))
    /\ RecordsSound(data, LiveSlots(data), U16(data, FreeEndAt))

\* C20: every slotted page reachable from Init by InsertRecord, DeleteRecord
\* and UpdateRecord has free_begin = 8 + 4 * num_slots and free_begin <=
\* free_end <= page_size, and every live slot's range [offset, offset+length)
\* lies inside [free_end, page_size) and overlaps no other live slot's range.
C20_PageInvariant ==
    slotted.data # <<>> => PageSound(slotted.data)

\* C21: after DeleteRecord has freed a record of length L, the next
\* InsertRecord into the page of a record of length at most L succeeds,
\* whatever calls came before and however little free space is left.
C21_DeleteFreesSpace ==
    [][(/\ slotted.last.op = "delete"
        /\ slotted.last.ok
        /\ slotted'.last.op = "insert"
        /\ slotted'.last.len <= slotted.last.len) => slotted'.last.ok]_vars

\* ------------------------------------------------------------------------
\* Claims about the free space map
\* ------------------------------------------------------------------------

\* ceil(n / GRANULARITY)
CeilCategory(n) == (n + GRANULARITY - 1) \div GRANULARITY

\* the entries of the FSM page whose category is positive and at least the
\* category a request of n bytes needs
Qualifying(data, n) ==
    {i \in 0..(PageSize - 1) : data[i + 1] > 0 /\ data[i + 1] >= CeilCategory(n)}

\* page_id answers a request of n bytes on the FSM page: the first qualifying
\* entry, whose recorded free space holds n bytes, or the invalid page id
FirstFit(page_id, qualifying, data, n) ==
    IF qualifying = {} THEN page_id = INVALID_PAGE_ID
    ELSE /\ page_id \in qualifying
         /\ \A i \in qualifying : page_id <= i
         /\ data[page_id + 1] * GRANULARITY >= n

FirstFitOn(data, page_id, n) == FirstFit(page_id, Qualifying(data, n), data, n)

\* C22: FindPageWithSpace(n) returns the first heap page of the FSM page
\* whose category byte is positive and at least ceil(n/16), so that the free
\* space recorded for it, category * 16, is at least n; it returns the
\* invalid page id when no byte qualifies.
C22_FindsFirstFit ==
    last.op = "find" =>
        \A name \in DOMAIN engine.collections_ :
            FirstFitOn(PageOf(engine.collections_[name].fsm_page), last.page_id, last.needed)


\* ------------------------------------------------------------------------
\* Claims about transactions
\* ------------------------------------------------------------------------

\* some request in the lock table carries the id of the txn
HasRequest(table, txn_id) ==
    \E k \in DOMAIN table : \E i \in 1..Len(table[k]) : table[k][i].txn_id = txn_id

\* the step is the UnlockAll that Commit or Abort of the txn calls
EndUnlocks(txn_id) ==
    /\ txn_call[txn_id] \in {"commit", "abort"}
    /\ txn_call'[txn_id] \in {"commit_unlocked", "abort_unlocked"}

\* C23: the UnlockAll of Commit and Abort leaves no request carrying the id
\* of the transaction in the lock table, granted or waiting, and no entry for
\* it in the lock sets: the call returns with the transaction holding nothing
C23_EndHoldsNothing ==
    [][\A t \in TxnIds :
         EndUnlocks(t) => ~HasRequest(lock_table_', t) /\ t \notin DOMAIN txn_locks_']_vars

\* the strength of the lock the txn is granted on the key: 0 none, 1 SHARED,
\* 2 EXCLUSIVE
HeldRank(table, key, txn_id) ==
    IF HoldsExclusive(QueueOf(table, key), txn_id) THEN 2
    ELSE IF HoldsGranted(QueueOf(table, key), txn_id) THEN 1 ELSE 0

\* C24: a lock granted to a transaction stays granted, in a mode at least as
\* strong, over every step but the UnlockAll of its own Commit or Abort
C24_NoEarlyRelease ==
    [][\A t \in TxnIds, key \in Keys :
         ~EndUnlocks(t) => HeldRank(lock_table_', key, t) >= HeldRank(lock_table_, key, t)]_vars

\* a growing transaction still holds its lock after another transaction, which
\* held a lock on the same record id beside it, has ended
C24_Witness ==
    \E t \in TxnIds, u \in TxnIds, key \in Keys :
        /\ t # u /\ Begun(t) /\ Begun(u)
        /\ txn_mgr.txn_map_[t] = "GROWING"
        /\ HeldRank(lock_table_, key, t) > 0
        /\ txn_mgr.txn_map_[u] \in {"COMMITTED", "ABORTED"}
        /\ ~HasRequest(lock_table_, u)
        /\ \E v \in TxnIds : pc[v] # "idle" /\ wkey[v] = key

\* C25: a transaction is granted a lock, or a stronger one, only while its
\* state is GROWING; after Commit or Abort has set SHRINKING, COMMITTED or
\* ABORTED no lock call for its id is granted
C25_GrantedOnlyGrowing ==
    [][\A t \in TxnIds, key \in Keys :
         HeldRank(lock_table_', key, t) > HeldRank(lock_table_, key, t)
             => Begun(t) /\ txn_mgr.txn_map_[t] = "GROWING"]_vars

\* requests i and j of the queue both wait, and the step grants j, which
\* was appended later, while i still waits
GrantedOutOfOrder(queue, after, i, j) ==
    /\ i < j
    /\ ~queue[i].granted /\ ~queue[j].granted
    /\ Len(after) = Len(queue)
    /\ after[j].granted /\ ~after[i].granted

\* C26: of two requests waiting on the same record id, the one appended to
\* the queue later is never granted while the earlier one still waits
C26_GrantFollowsQueue ==
    [][\A key \in DOMAIN lock_table_ :
         \A i \in 1..Len(lock_table_[key]), j \in 1..Len(lock_table_[key]) :
             ~GrantedOutOfOrder(lock_table_[key], QueueOf(lock_table_', key), i, j)]_vars

\* the blocked lock call of t cannot return while u holds its granted request
WaitsFor(t, u) ==
    /\ t # u
    /\ pc[t] \in {"wait_shared", "wait_exclusive", "wait_upgrade"}
    /\ \E i \in 1..Len(QueueOf(lock_table_, wkey[t])) :
          /\ lock_table_[wkey[t]][i].txn_id = u
          /\ lock_table_[wkey[t]][i].granted
          /\ pc[t] = "wait_shared" => lock_table_[wkey[t]][i].mode = "EXCLUSIVE"

\* the transactions of the set wait for each other: each is blocked by one of them
WaitCycle(txns) == txns # {} /\ \A t \in txns : \E u \in txns : WaitsFor(t, u)

\* C27: no lock call is left waiting in a cycle of transactions that wait for
\* each other; the call whose wait would close the cycle returns false
C27_NoWaitCycle == \A txns \in SUBSET Txns : ~WaitCycle(txns)

\* the state of the transaction, "none" before Begin has registered it
StateOf(mgr, txn_id) ==
    IF txn_id \in DOMAIN mgr.txn_map_ THEN mgr.txn_map_[txn_id] ELSE "none"

\* the state changes Begin, Commit and Abort may make, with the call making them
StateSteps ==
    {<<"none", "GROWING", "begin">>,
     <<"GROWING", "SHRINKING", "none">>,
     <<"SHRINKING", "COMMITTED", "commit_unlocked">>,
     <<"SHRINKING", "ABORTED", "abort_unlocked">>}

\* C28: the ids Begin draws are 0, 1, 2, ... in the order of the draws, also
\* when Begin calls overlap; a transaction is registered in state GROWING;
\* Commit takes it to SHRINKING and then COMMITTED, Abort to SHRINKING and
\* then ABORTED, and UnlockAll is called while the state is SHRINKING
C28_IdsAndStates ==
    /\ [](\A i \in 1..Len(txn_ids) : txn_ids[i] = i - 1)
    /\ [][\A t \in TxnIds :
            /\ StateOf(txn_mgr', t) # StateOf(txn_mgr, t) =>
                   <<StateOf(txn_mgr, t), StateOf(txn_mgr', t), txn_call[t]>> \in StateSteps
            /\ EndUnlocks(t) =>
                   StateOf(txn_mgr, t) = "SHRINKING" /\ StateOf(txn_mgr', t) = "SHRINKING"]_vars

\* two Begin calls have drawn their ids and not yet registered, while the
\* transaction begun first has ended, its locks released
C28_Witness ==
    /\ Len(txn_ids) = MaxTxns
    /\ \E t \in TxnIds, u \in TxnIds :
          t # u /\ txn_call[t] = "begin" /\ txn_call[u] = "begin"
    /\ \E t \in TxnIds :
          /\ StateOf(txn_mgr, t) \in {"COMMITTED", "ABORTED"}
          /\ txn_call[t] = "none"

\* ------------------------------------------------------------------------
\* Claims about the pins of the heap file and of the B+ tree
\* ------------------------------------------------------------------------

\* the pin count of the page: that of its frame, 0 when it is not resident
PinCount(b, page_id) ==
    IF page_id \in DOMAIN b.page_table_
    THEN b.pages_[b.page_table_[page_id]].pin_count_ ELSE 0

\* every page has after the call the pin count it had before
SamePins(b, after) ==
    \A page_id \in DOMAIN b.page_table_ \cup DOMAIN after.page_table_ :
        PinCount(after, page_id) = PinCount(b, page_id)

\* C29: every call of the heap file (insert, delete, get, update, a scan to
\* its end) and of the free space map returns, on success and on failure,
\* with the pin count of every page what it was before the call
C29_HeapPinsBalanced ==
    [][last'.op \in {"insert", "delete", "get", "update", "scan", "find"}
           => SamePins(bpm, bpm')]_vars

\* C30: search, insert, delete and range_scan of the B+ tree return, on
\* success and on failure, also when the pool has no frame for the page of a
\* leaf split, an internal split or a new root, with the pin count of every
\* page what it was before the call
C30_TreePinsBalanced ==
    [][(tree # NoTree /\ handles' = handles) => SamePins(bpm, bpm')]_vars

\* ------------------------------------------------------------------------
\* Claims about the round trip of the log
\* ------------------------------------------------------------------------

\* what ReadAllRecords gives on the part of the file that was there when
\* this WAL instance opened it
ReadAtOpen == ReadAllRecords(SubSeq(log_file, 1, open_pos))

\* C31: when the last append was a COMMIT or a Flush followed the appends
\* (the buffer is empty), ReadAllRecords returns the records the file held
\* before and then exactly the appended records, in append order, each with
\* the lsn, txn_id, prev_lsn, type, page_id, slot_id, before-image and
\* after-image the append left with the caller
C31_RoundTrip ==
    (wal.open /\ wal.buffer_ = <<>>) =>
        LET r == ReadAllRecords(log_file)
        IN /\ ~r.ub
           /\ r.records = ReadAtOpen.records \o appended

\* C31 witness: a Flush has written an UPDATE with both images that was
\* appended after a COMMIT, and ReadAllRecords gives both back
C31_Witness ==
    /\ wal.open
    /\ wal.buffer_ = <<>>
    /\ Len(appended) >= 2
    /\ appended[Len(appended)].type = UPDATE
    /\ appended[Len(appended)].before_image # <<>>
    /\ appended[Len(appended)].after_image # <<>>
    /\ \E k \in 1..(Len(appended) - 1) : appended[k].type = COMMIT
    /\ ReadAllRecords(SessionBytes).records = appended

\* the records that are completely present at the head of the file: the
\* longest run of appended records whose bytes the file starts with
CompleteRecords ==
    LET whole == {k \in 0..Len(appended) :
                     LET bytes == Written(SubSeq(appended, 1, k))
                     IN /\ Len(bytes) <= Len(log_file)
                        /\ SubSeq(log_file, 1, Len(bytes)) = bytes}
    IN SubSeq(appended, 1, CHOOSE k \in whole : \A j \in whole : j <= k)

\* C32 as stated: on a log file that was cut at any byte or that ends in
\* garbage, ReadAllRecords reads no byte that is missing and returns exactly
\* the complete records that precede the first incomplete one
C32_TruncationTolerated ==
    LET r == ReadAllRecords(log_file)
    IN /\ ~r.ub
       /\ r.records = CompleteRecords

\* ------------------------------------------------------------------------
\* Claims about the executors
\* ------------------------------------------------------------------------

\* a is before b in the order of the kind: numbers by value, strings
\* lexicographically by their bytes, a proper prefix first; a NaN, null and
\* documents are before nothing
StdLess(kind, a, b) ==
    IF kind \in {"int32", "int64"} THEN a[1] < b[1]
    ELSE IF kind = "double" THEN a # <<>> /\ b # <<>> /\ a[1] < b[1]
    ELSE IF kind = "string"
    THEN \E i \in 1..(Len(b)) :
            /\ i <= Len(a) + 1
            /\ \A j \in 1..(i - 1) : a[j] = b[j]
            /\ (i = Len(a) + 1 \/ a[i] < b[i])
    ELSE FALSE

\* the two values of one kind are equal; a NaN is equal to nothing
StdEqual(kind, a, b) == a = b /\ (kind = "double" => a # <<>>)

\* the relational comparison a op b of two values of one kind
StdCompare(op, kind, a, b) ==
    IF op = "EQ" THEN StdEqual(kind, a, b)
    ELSE IF op = "NE" THEN ~StdEqual(kind, a, b)
    ELSE IF op = "LT" THEN StdLess(kind, a, b)
    ELSE IF op = "LE" THEN StdLess(kind, a, b) \/ StdEqual(kind, a, b)
    ELSE IF op = "GT" THEN StdLess(kind, b, a)
    ELSE StdLess(kind, b, a) \/ StdEqual(kind, a, b)

\* the predicate as the claim defines it: false on a missing field and on
\* operands of different kinds, EQ and NE alone on booleans, and the
\* relational comparison otherwise
Satisfies(pred, doc) ==
    \E i \in 1..Len(doc) :
        /\ doc[i].key = pred.field_name
        /\ doc[i].kind = pred.value.kind
        /\ (doc[i].kind = "bool" => pred.op \in {"EQ", "NE"})
        /\ StdCompare(pred.op, doc[i].kind, doc[i].value, pred.value.value)

\* the tuples of the child that satisfy every predicate, in child order
Satisfying(child, predicates) ==
    SelectSeq(child, LAMBDA t : \A i \in 1..Len(predicates) : Satisfies(predicates[i], t.doc))

\* C33 as stated: the tuples a Filter has returned are the first of the
\* child's tuples that satisfy every predicate, in child order, and all of
\* them when Next has returned false
C33_FilterReturnsSatisfying ==
    LET want == Satisfying(filter.input, filter.predicates_)
    IN /\ Len(filter.returned) <= Len(want)
       /\ filter.returned = SubSeq(want, 1, Len(filter.returned))
       /\ filter.done => filter.returned = want

\* ------------------------------------------------------------------------
\* Claims about the serializer
\* ------------------------------------------------------------------------

\* the names of the fields of the document
FieldNames(doc) == {doc[i].key : i \in 1..Len(doc)}

\* C34 as stated: for a document with values of the seven kinds,
\* Deserialize(Serialize(doc)) returns a document with the same set of field
\* names, each field with the kind and the value it has in doc
C34_SerializeRoundTrip ==
    codec.state = "deserialized" =>
        /\ codec.back.ok
        /\ FieldNames(codec.back.doc) = FieldNames(codec.doc)
        /\ \A key \in FieldNames(codec.doc) :
              /\ Head(FieldOf(codec.back.doc, key)).kind = Head(FieldOf(codec.doc, key)).kind
              /\ Head(FieldOf(codec.back.doc, key)).value = Head(FieldOf(codec.doc, key)).value

\* ------------------------------------------------------------------------
\* Claims about the progress of the lock manager
\* ------------------------------------------------------------------------

\* the transaction holds a granted request on some record id
Holding(t) ==
    \E key \in DOMAIN lock_table_ : HoldsGranted(lock_table_[key], t)

\* C35: with a fair scheduling of the threads and finitely many lock calls,
\* if every transaction that holds a granted lock comes to hold none
\* (unlock_all is the only way), then every thread blocked in LockShared,
\* LockExclusive or LockUpgrade comes out of the call holding its lock; and
\* every UnlockAll wakes each thread that waits on a queue it releases
C35_BlockedEventuallyGranted ==
    /\ (\A t \in TxnIds : Holding(t) ~> ~Holding(t))
          => (\A t \in TxnIds : (pc[t] # "idle") ~> (pc[t] = "idle" /\ Holding(t)))
    /\ [][\A t \in TxnIds, u \in TxnIds :
            (/\ t \in DOMAIN txn_locks_
             /\ t \notin DOMAIN txn_locks_'
             /\ pc[u] # "idle"
             /\ wkey[u] \in txn_locks_[t]) => u \in cv'.notified]_vars

\* C35 witness: a blocked call has returned to one thread while another is
\* still blocked and a third one holds the lock
C35_Witness ==
    \E t, u, w \in TxnIds :
        /\ t \in cv.served
        /\ pc[u] # "idle"
        /\ u \notin cv.served
        /\ pc[w] = "idle"
        /\ Holding(w)

\* ------------------------------------------------------------------------
\* Claims about search and delete of the B+ tree
\* ------------------------------------------------------------------------

RECURSIVE KeysOfLeaves(_, _, _)
\* the keys of the entries in the leaves, from left to right
KeysOfLeaves(b, d, leaves) ==
    IF leaves = <<>> THEN <<>>
    ELSE LeafKeys(b, d, Head(leaves)) \o KeysOfLeaves(b, d, Tail(leaves))

\* the number of entries with the key that the tree holds
Held(b, d, t, key) ==
    Len(SelectSeq(KeysOfLeaves(b, d, LeavesUnder(b, d, t.root_page_id_)),
                  LAMBDA k : k = key))

\* Delete(key) answers r as the claim says: true exactly when an entry with
\* the key exists, and then one entry with the key less and every other key
\* as before
DeletesOne(r, key) ==
    /\ r.found <=> Held(bpm, disk, tree, key) > 0
    /\ \A other \in TreeKeys :
          Held(r.bpm, r.disk, tree, other) =
              Held(bpm, disk, tree, other) - (IF r.found /\ other = key THEN 1 ELSE 0)

\* C36 as stated: after any inserts and deletes, duplicate keys included,
\* Search(key) returns a valid record id exactly when the tree holds an
\* entry with the key, and Delete(key) returns true and removes exactly one
\* entry exactly when such an entry exists
C36_SearchAndDeleteFindKey ==
    tree # NoTree =>
        \A key \in TreeKeys :
            /\ (Search(bpm, disk, tree, key).rid # INVALID_RECORD_ID)
                   <=> Held(bpm, disk, tree, key) > 0
            /\ DeletesOne(Delete(bpm, disk, tree, key), key)

\* ------------------------------------------------------------------------
\* Claims about the isolation of collections
\* ------------------------------------------------------------------------

\* the pages the scan of the heap file visits
ScannedPages(h) == h.first_page_id_..h.max_page_id_

\* the pages that are the free space map or the first heap page of a
\* collection other than name, the free space map of name, or the root of
\* an index
ForeignPages(name) ==
    {engine.collections_[o].fsm_page : o \in DOMAIN engine.collections_}
    \cup {engine.collections_[o].first_heap_page : o \in DOMAIN engine.collections_ \ {name}}
    \cup UNION {{engine.collections_[o].indexes[i].btree_root_page :
                    i \in DOMAIN engine.collections_[o].indexes} :
                o \in DOMAIN engine.collections_}

\* C37 as stated: a sequential scan of the heap file of a collection ends
\* without an error, yields only records that were inserted into that
\* collection, and visits no page of the heap file of another collection,
\* of a free space map or of a B+ tree
C37_ScanStaysInCollection ==
    \A name \in DOMAIN engine.collections_ :
        /\ ScannedPages(HeapOf(name)) \cap ForeignPages(name) = {}
        /\ LET scan == HeapScan(bpm, disk, HeapOf(name))
           IN /\ ~scan.err
              /\ \A i \in 1..Len(scan.tuples) :
                    /\ scan.tuples[i].rid \in DOMAIN ExpectedOf(name)
                    /\ scan.tuples[i].doc = ExpectedOf(name)[scan.tuples[i].rid]

\* ------------------------------------------------------------------------
\* Claims about a heap update that fails
\* ------------------------------------------------------------------------

\* C38 as stated: when UpdateRecord(rid, doc) on a stored record ends with
\* an error, GetRecord returns for every record id that held a document
\* before the call, rid among them, the document it returned before
C38_FailedUpdateKeepsRecord ==
    [][(last'.op = "update" /\ last'.failed /\ ~last'.missing)
          => \A name \in DOMAIN expected.names :
                \A rid \in DOMAIN expected.names[name] :
                    HeapGetRecord(bpm', disk', rid).doc = HeapGetRecord(bpm, disk, rid).doc]_vars

\* C39: after any sequence of the engine's insert, delete and update
\* commands on an indexed collection, an index scan does not fail on
\* GetRecord, and every tuple it returns holds a document whose indexed
\* field gives the key the index returned it under
C39_IndexScanFindsLiveRecords ==
    (last.op = "index_scan") =>
        /\ ~last.failed
        /\ \A i \in 1..Len(last.tuples) :
              IndexKeys(last.tuples[i].doc, last.field_name) = <<last.tuples[i].key>>

\* C40: an UnpinPage(page_id, is_dirty) that returns false, for either value
\* of is_dirty, leaves the buffer pool (pin counts, dirty flags, page table,
\* free list and LRU list) exactly as it was before the call
C40_FailedUnpinChangesNothing ==
    [][\A page_id \in PageIds, is_dirty \in BOOLEAN :
          (/\ ~UnpinPage(bpm, page_id, is_dirty).ok
           /\ BufUnpinPage(page_id, is_dirty)) => bpm' = bpm]_vars

====
